---- MODULE Spec2Model ----
(***************************************************************************)
(* A model of the rdeebee storage engine (src/lib.rs and src/storage):     *)
(* the write-ahead log, the memtable, the SSTables with their merge, the   *)
(* bloom filter, the key-to-tid map and recovery, as a state machine over  *)
(* the engine object and the files of its directory.                       *)
(***************************************************************************)
EXTENDS Integers, Sequences, FiniteSets, TLC

\* ------------------------------------------------------------------------
\* Bounds of the model
\* ------------------------------------------------------------------------
\* Number of state-changing engine calls in one behaviour.
MaxOps == 5
\* Transaction ids (Uuid values) that Uuid::new_v4 can hand out.
MaxTid == 3
\* Sequence numbers a request can carry.
MaxSeq == 2

Keys == {"a", "b"}
Tids == 1..MaxTid
Seqs == 1..MaxSeq
\* Request payloads ("" would be the empty byte string); "q|r" holds the
\* byte '|'.
ReqPayloads == {"p", "q|r"}
\* Operations of the requests the writer task hands to add_event
\* (src/bin/server.rs: a Delete request goes to delete_event).
AddOps == {"Write"}

NoPayload == "None"
NoId == 0
NoEvent == [seq |-> 0, tid |-> NoId, action |-> "None", payload |-> NoPayload]

VARIABLES
    clock,          \* SystemTime::now() in microseconds, read for file epochs
    disk,           \* the directory: <<extension, epoch>> -> chunks of the file
    alive,          \* TRUE while an RDeeBee object exists
    wal,            \* RDeeBee.wal: [path, buf] (buf: BufWriter content not on disk)
    memtable,       \* RDeeBee.memtable: [identifiers, entries]
    sstables,       \* RDeeBee.sstables: file paths (epochs), position 1 oldest
    bloomfilter,    \* RDeeBee.bloomfilter: the set of bits that are set
    key_to_id_map,  \* RDeeBee.key_to_id_map: key -> tid (NoId: no entry)
    issued,         \* tids Uuid::new_v4 has returned so far
    nops,           \* number of state-changing calls made
    budget,         \* number of state-changing calls the behaviour may make
    last,           \* the last call and what it returned
    written,        \* per key: what the calls answered Ok have done to it
    boot,           \* where the engine is in a crash / reopen / recover cycle
    recovered,      \* result of the last recover(), while nothing was written since
    script,         \* how far the calls so far follow SealMergeScript (-1: they do not)
    server,         \* src/bin/server.rs: the tasks, the event queue, the locks
    cluster         \* src/cluster_ops/node.rs: the nodes and the coordinator

vars == <<clock, disk, alive, wal, memtable, sstables, bloomfilter,
          key_to_id_map, issued, nops, budget, last, written, boot, recovered,
          script, server, cluster>>

\* The variables of the storage engine and its directory.
engineVars == <<clock, disk, alive, wal, memtable, sstables, bloomfilter,
                key_to_id_map, issued, nops, budget, last, written, boot,
                recovered, script>>

\* No server and no cluster node runs: the engine is called directly.
NoServer == [on |-> FALSE]
NoCluster == [on |-> FALSE]

\* ------------------------------------------------------------------------
\* Event (src/storage/event.rs, src/storageops/event.rs)
\* ------------------------------------------------------------------------
EventWithId(id, action, seq) ==
    [seq |-> seq, tid |-> id, action |-> action, payload |-> NoPayload]

EventSetPayload(event, payload) == [event EXCEPT !.payload = payload]

\* ------------------------------------------------------------------------
\* Event framing on disk: bincode::serialize(event) followed by '|'
\* ------------------------------------------------------------------------
\* The tids and seqs of the model hold no byte 0x7C; a payload may.
HasPipe(event) == event.payload = "q|r"

\* What read_until(b'|') cuts the written bytes into.  An encoding without
\* the byte '|' is one chunk that deserializes to the event.  The payload
\* "q|r" cuts the encoding in two chunks (up to the payload's '|', and "r|"),
\* and neither deserializes.
Encode(event) ==
    IF HasPipe(event)
    THEN << [ok |-> FALSE, ev |-> event], [ok |-> FALSE, ev |-> event] >>
    ELSE << [ok |-> TRUE, ev |-> event] >>

RECURSIVE EncodeAll(_)
EncodeAll(events) ==
    IF events = << >> THEN << >>
    ELSE Encode(Head(events)) \o EncodeAll(Tail(events))

\* SSTableIterator::next / WalIterator::next at chunk position i (1-based):
\* None at end of file and on a chunk that does not deserialize.
IterNext(file, i) ==
    IF i <= Len(file) /\ file[i].ok THEN file[i].ev ELSE NoEvent

IterAdvance(file, i) == IF i <= Len(file) THEN i + 1 ELSE i

\* A for loop over the iterator: the events up to the first None.
RECURSIVE ForIterFrom(_, _)
ForIterFrom(file, i) ==
    IF IterNext(file, i) = NoEvent THEN << >>
    ELSE << IterNext(file, i) >> \o ForIterFrom(file, i + 1)

ForIter(file) == ForIterFrom(file, 1)

\* ------------------------------------------------------------------------
\* Files of the directory
\* ------------------------------------------------------------------------
FileOpenAppend(d, name) ==
    [n \in DOMAIN d \cup {name} |-> IF n \in DOMAIN d THEN d[n] ELSE << >>]

FileAppend(d, name, chunks) ==
    [n \in DOMAIN d \cup {name} |->
        IF n = name
        THEN (IF n \in DOMAIN d THEN d[n] ELSE << >>) \o chunks
        ELSE d[n]]

FileRemove(d, names) == [n \in DOMAIN d \ names |-> d[n]]

\* ------------------------------------------------------------------------
\* Bloom filter (src/storage/mem/bloomfilter.rs)
\* ------------------------------------------------------------------------
\* The bit vector and the number of hash indices, scaled down from
\* 56_166_771 bits and 10 indices.
BF_SIZE == 3
NUM_HASHES == 2

\* The two 64-bit hashes of a tid (fxhash::hash64 and DefaultHasher), as a
\* table: tids 1 and 2 share one index, tids 1 and 3 share all of them.
Hash1(id) == CASE id = 1 -> 0 [] id = 2 -> 1 [] id = 3 -> 3 [] OTHER -> id
Hash2(id) == 1

BFHashI(id, i) == (Hash1(id) + (i * i) * Hash2(id)) % BF_SIZE

BFHash(id) == { BFHashI(id, i) : i \in 0..(NUM_HASHES - 1) }

BFFind(bf, id) == \A index \in BFHash(id) : index \in bf

BFAdd(bf, id) == bf \cup BFHash(id)

BFDelete(bf, id) == bf \ BFHash(id)

\* ------------------------------------------------------------------------
\* MemTable (src/storage/mem/memtable.rs)
\* ------------------------------------------------------------------------
MemTableNew == [identifiers |-> << >>, entries |-> << >>]

\* OrderedSkipList::insert: keeps ascending order and keeps duplicates.
SkipListInsert(s, id) ==
    LET k == Cardinality({ i \in 1..Len(s) : s[i] <= id })
    IN  SubSeq(s, 1, k) \o << id >> \o SubSeq(s, k + 1, Len(s))

MemTableInsert(m, event) ==
    [identifiers |-> SkipListInsert(m.identifiers, event.tid),
     entries |-> [t \in DOMAIN m.entries \cup {event.tid} |->
                     IF t = event.tid THEN event ELSE m.entries[t]]]

MemTableGetEvent(m, id) ==
    IF id \in DOMAIN m.entries THEN m.entries[id] ELSE NoEvent

MemTableContains(m, id) == id \in DOMAIN m.entries

\* MemtableIterator: one event per element of the identifier list.
MemTableIter(m) ==
    [i \in 1..Len(m.identifiers) |-> MemTableGetEvent(m, m.identifiers[i])]

RECURSIVE MemTableInsertAll(_, _)
MemTableInsertAll(m, events) ==
    IF events = << >> THEN m
    ELSE MemTableInsertAll(MemTableInsert(m, Head(events)), Tail(events))

\* ------------------------------------------------------------------------
\* SSTable (src/storage/disk/sstable.rs)
\* ------------------------------------------------------------------------
TablePath(epoch) == << "table", epoch >>
WalPath(epoch) == << "wal", epoch >>

\* SSTable::get: the first event of the file with this id, read by a for
\* loop over the iterator.
RECURSIVE SeqFind(_, _)
SeqFind(events, id) ==
    IF events = << >> THEN NoEvent
    ELSE IF Head(events).tid = id THEN Head(events)
    ELSE SeqFind(Tail(events), id)

SSTableGet(d, table, id) == SeqFind(ForIter(d[TablePath(table)]), id)

SSTableContains(d, table, id) == SSTableGet(d, table, id) # NoEvent

\* SSTable::save_to_disk: one encoded event and '|' per memtable entry.
SaveToDisk(d, table, m) ==
    FileAppend(d, TablePath(table), EncodeAll(MemTableIter(m)))

\* The loop of SSTable::merge.  Every round calls next() on both iterators;
\* i and j are the chunk positions of the two readers.
RECURSIVE MergeLoop(_, _, _, _, _, _, _)
MergeLoop(f1, f2, i, j, newer1, events, deleted_events) ==
    LET event1 == IterNext(f1, i)
        event2 == IterNext(f2, j)
        event  == CASE event1 # NoEvent /\ event2 # NoEvent ->
                         IF event1.tid < event2.tid THEN event1
                         ELSE IF event1.tid = event2.tid
                              THEN (IF newer1 THEN event1 ELSE event2)
                              ELSE event2
                    [] event1 = NoEvent /\ event2 # NoEvent -> event2
                    [] event1 # NoEvent /\ event2 = NoEvent -> event1
                    [] OTHER -> NoEvent
        deleted == IF event.action = "Delete"
                   THEN deleted_events \cup {event.tid}
                   ELSE deleted_events
        pushed  == IF event.tid \in deleted THEN events
                   ELSE Append(events, event)
    IN  IF event1 = NoEvent /\ event2 = NoEvent
        THEN events
        ELSE MergeLoop(f1, f2, IterAdvance(f1, i), IterAdvance(f2, j),
                       newer1, pushed, deleted)

\* The events SSTable::merge writes for self (epoch1) and other (epoch2).
MergeEvents(f1, epoch1, f2, epoch2) ==
    MergeLoop(f1, f2, 1, 1, epoch1 > epoch2, << >>, {})

\* SSTable::merge on the directory: both inputs are removed, the merged
\* events are written to a file named after the current time.
MergeDisk(d, s1, s2, now) ==
    FileAppend(FileRemove(d, {TablePath(s1), TablePath(s2)}), TablePath(now),
               EncodeAll(MergeEvents(d[TablePath(s1)], s1, d[TablePath(s2)], s2)))

\* ------------------------------------------------------------------------
\* Recovery (src/recovery.rs)
\* ------------------------------------------------------------------------
\* recover_files: the epochs of the files with the extension, sorted.
RECURSIVE SortEpochs(_)
SortEpochs(S) ==
    IF S = {} THEN << >>
    ELSE LET m == CHOOSE x \in S : \A y \in S : x <= y
         IN  << m >> \o SortEpochs(S \ {m})

RecoverFiles(d, ext) == SortEpochs({ n[2] : n \in { x \in DOMAIN d : x[1] = ext } })

\* Recovery::recover: every event of every WAL file, oldest file first, is
\* inserted into a new memtable.
RECURSIVE RecoverWals(_, _, _)
RecoverWals(d, epochs, m) ==
    IF epochs = << >> THEN m
    ELSE RecoverWals(d, Tail(epochs),
                     MemTableInsertAll(m, ForIter(d[WalPath(Head(epochs))])))

RecoverMemtable(d) == RecoverWals(d, RecoverFiles(d, "wal"), MemTableNew)

\* A recover_sstable that pushes onto the list the engine already holds.
RecoverSstableKeepingList(d) == sstables \o RecoverFiles(d, "table")

\* Recovery::recover_sstable: one SSTable per table file, oldest first.
RecoverSstable(d) == RecoverFiles(d, "table")

\* ------------------------------------------------------------------------
\* RDeeBee (src/lib.rs): the read operations
\* ------------------------------------------------------------------------
Response(key, op, status, payload) ==
    [key |-> key, op |-> op, status |-> status, payload |-> payload]

\* A lookup that never finds the key.
GetKeyIdNotFound(map, key) == NoId

GetKeyId(map, key) == map[key]

\* for table in self.sstables.iter().rev(): the first hit, newest first.
RECURSIVE ScanTables(_, _, _, _)
ScanTables(d, tables, k, id) ==
    IF k = 0 THEN NoEvent
    ELSE IF SSTableGet(d, tables[k], id) # NoEvent
         THEN SSTableGet(d, tables[k], id)
         ELSE ScanTables(d, tables, k - 1, id)

\* The event get_event_by_key answers with (NoEvent: none).  The loop over
\* the memtable keeps the last event the iterator yields.
GetRetEvent(key) ==
    LET uuid == GetKeyId(key_to_id_map, key)
        it   == MemTableIter(memtable)
    IN  IF uuid = NoId \/ ~BFFind(bloomfilter, uuid) THEN NoEvent
        ELSE IF it # << >> THEN it[Len(it)]
        ELSE ScanTables(disk, sstables, Len(sstables), uuid)

GetEventByKey(key) ==
    LET uuid == GetKeyId(key_to_id_map, key)
        ev   == GetRetEvent(key)
    IN  IF uuid = NoId \/ ~BFFind(bloomfilter, uuid)
        THEN Response("", "Read", "Invalid_Key", "")
        ELSE IF ev # NoEvent
        THEN Response(key, ev.action, "Ok",
                      IF ev.payload # NoPayload THEN ev.payload ELSE "")
        ELSE Response(key, "Read", "Invalid_Key", "")

ContainsEvent(id) ==
    IF BFFind(bloomfilter, id) THEN FALSE
    ELSE IF MemTableContains(memtable, id) THEN TRUE
    ELSE \E k \in 1..Len(sstables) : SSTableContains(disk, sstables[k], id)

\* ------------------------------------------------------------------------
\* RDeeBee (src/lib.rs): construction and the operations that change state
\* ------------------------------------------------------------------------
Call(op, key, seq, payload, status, ev) ==
    [op |-> op, key |-> key, seq |-> seq, payload |-> payload,
     status |-> status, ev |-> ev]

NoKey == ""
NoWrite == [st |-> "none", payload |-> "", hi |-> 0, tid |-> NoId]
NoRecovery ==
    [runs |-> 0, memtable |-> MemTableNew, sstables |-> << >>, tables |-> << >>]

\* What iterating each SSTable of a list yields.
TableContents(d, tables) ==
    [i \in 1..Len(tables) |-> ForIter(d[TablePath(tables[i])])]

\* Wal::new: a file named after the current time, opened create + append.
WalNew(now) == [path |-> now, buf |-> << >>]

\* Wal::add_event: write_all into the BufWriter, no flush.
WalAddEvent(w, event) == [w EXCEPT !.buf = w.buf \o Encode(event)]

\* BufWriter::flush (and its Drop): the buffered bytes reach the file.
WalFlushDisk(d, w) == FileAppend(d, WalPath(w.path), w.buf)

\* The calls of the scenario "seal and merge a tombstone": write a, seal,
\* write b, seal, delete a, seal, then try_sstables_compact twice.
SealMergeScript ==
    << <<"add_event", "a">>, <<"try_memtable_compact", NoKey>>,
       <<"add_event", "b">>, <<"try_memtable_compact", NoKey>>,
       <<"delete_event", "a">>, <<"try_memtable_compact", NoKey>>,
       <<"try_sstables_compact", NoKey>>, <<"try_sstables_compact", NoKey>> >>

ScriptAfter(op, key) ==
    IF script >= 0 /\ script < Len(SealMergeScript)
       /\ SealMergeScript[script + 1] = <<op, key>>
    THEN script + 1
    ELSE -1

\* The state after RDeeBee::new on an empty directory.
Init ==
    /\ clock = 2
    /\ disk = [n \in {WalPath(1)} |-> << >>]
    /\ alive = TRUE
    /\ wal = WalNew(1)
    /\ memtable = MemTableNew
    /\ sstables = << >>
    /\ bloomfilter = {}
    /\ key_to_id_map = [k \in Keys |-> NoId]
    /\ issued = {}
    /\ nops = 0
    /\ budget = MaxOps
    /\ server = NoServer
    /\ cluster = NoCluster
    /\ last = Call("new", NoKey, 0, "", "Ok", NoEvent)
    /\ written = [k \in Keys |-> NoWrite]
    /\ boot = "fresh"
    /\ recovered = NoRecovery
    /\ script = 0

\* RDeeBee::new on the directory a dead engine left behind.
New ==
    /\ ~alive
    /\ alive' = TRUE
    /\ disk' = FileOpenAppend(disk, WalPath(clock))
    /\ wal' = WalNew(clock)
    /\ clock' = clock + 1
    /\ memtable' = MemTableNew
    /\ sstables' = << >>
    /\ bloomfilter' = {}
    /\ key_to_id_map' = [k \in Keys |-> NoId]
    /\ last' = Call("new", NoKey, 0, "", "Ok", NoEvent)
    /\ boot' = IF boot = "crashed" THEN "reopened" ELSE boot
    /\ UNCHANGED <<issued, nops, budget, server, cluster, written, recovered, script>>

\* What an Ok answer of add_event or delete_event does to the key's history.
WrittenAfter(w, action, seq, payload, id) ==
    IF action = "Write"
    THEN [st |-> IF w.st \in {"deleted", "rewritten"} THEN "rewritten" ELSE "written",
          payload |-> payload,
          hi |-> IF seq > w.hi THEN seq ELSE w.hi,
          tid |-> id]
    ELSE IF action = "Delete" THEN [w EXCEPT !.st = "deleted", !.tid = id]
    ELSE w

\* An add_event that inserts into the memtable before it appends to the WAL.
AddEventMemtableFirst(m, event, wal_ok) == MemTableInsert(m, event)

\* add_event: the memtable is reached only when the WAL append returned Ok.
AddEventMemtable(m, event, wal_ok) ==
    IF wal_ok THEN MemTableInsert(m, event) ELSE m

\* RDeeBee::add_event.
AddEvent(key, op, seq, payload) ==
    /\ alive
    /\ nops < budget
    /\ \E fresh \in Tids :
        LET known == GetKeyId(key_to_id_map, key) # NoId
            id    == IF known THEN GetKeyId(key_to_id_map, key) ELSE fresh
            ev0   == EventWithId(id, op, seq)
            event == IF payload # "" THEN EventSetPayload(ev0, payload) ELSE ev0
        IN  /\ IF known THEN fresh = id ELSE fresh \notin issued
            /\ key_to_id_map' = [key_to_id_map EXCEPT ![key] = id]
            /\ bloomfilter' = IF known THEN bloomfilter ELSE BFAdd(bloomfilter, id)
            /\ issued' = issued \cup {id}
            /\ wal' = WalAddEvent(wal, event)
            /\ memtable' = AddEventMemtable(memtable, event, TRUE)
            /\ last' = Call("add_event", key, seq, payload, "Ok", event)
            /\ written' = [written EXCEPT ![key] = WrittenAfter(@, op, seq, payload, id)]
    /\ nops' = nops + 1
    /\ boot' = "running"
    /\ recovered' = NoRecovery
    /\ script' = ScriptAfter("add_event", key)
    /\ UNCHANGED <<clock, disk, alive, sstables, budget, server, cluster>>

\* RDeeBee::add_event when self.wal.add_event returns Err (the write to
\* the file fails before a byte of the event is accepted): the key map and
\* the bloom filter are already updated, the answer is Server_Error.
AddEventWalError(key, op, seq, payload) ==
    /\ alive
    /\ nops < budget
    /\ \E fresh \in Tids :
        LET known == GetKeyId(key_to_id_map, key) # NoId
            id    == IF known THEN GetKeyId(key_to_id_map, key) ELSE fresh
            ev0   == EventWithId(id, op, seq)
            event == IF payload # "" THEN EventSetPayload(ev0, payload) ELSE ev0
        IN  /\ IF known THEN fresh = id ELSE fresh \notin issued
            /\ key_to_id_map' = [key_to_id_map EXCEPT ![key] = id]
            /\ bloomfilter' = IF known THEN bloomfilter ELSE BFAdd(bloomfilter, id)
            /\ issued' = issued \cup {id}
            /\ memtable' = AddEventMemtable(memtable, event, FALSE)
            /\ last' = Call("add_event", key, seq, payload, "Server_Error", event)
    /\ nops' = nops + 1
    /\ boot' = "running"
    /\ recovered' = NoRecovery
    /\ script' = -1
    /\ UNCHANGED <<clock, disk, alive, wal, sstables, budget, server, cluster, written>>

\* RDeeBee::add_event on a request whose op field holds no Operation value.
AddEventInvalidOp(key, seq) ==
    /\ alive
    /\ nops < budget
    /\ last' = Call("add_event", key, seq, "", "Invalid_Op", NoEvent)
    /\ nops' = nops + 1
    /\ boot' = "running"
    /\ script' = -1
    /\ UNCHANGED <<clock, disk, alive, wal, memtable, sstables, bloomfilter,
                   key_to_id_map, issued, budget, server, cluster, written, recovered>>

\* A delete_event that does not stop at a key without tid.
DeleteStatusAlwaysOk(id) == "Ok"

\* delete_event: the answer the lookup of the tid decides.
DeleteStatus(id) == IF id = NoId THEN "Invalid_Key" ELSE "Ok"

\* RDeeBee::delete_event (with Wal::delete_event, which flushes).
DeleteEvent(key, seq) ==
    /\ alive
    /\ nops < budget
    /\ LET id == GetKeyId(key_to_id_map, key)
           event == EventWithId(id, "Delete", seq)
       IN  IF DeleteStatus(id) = "Invalid_Key"
           THEN /\ last' = Call("delete_event", key, seq, "", "Invalid_Key", NoEvent)
                /\ UNCHANGED <<disk, wal, bloomfilter, written, recovered>>
           ELSE /\ bloomfilter' = BFDelete(bloomfilter, id)
                /\ disk' = WalFlushDisk(disk, WalAddEvent(wal, event))
                /\ wal' = [wal EXCEPT !.buf = << >>]
                /\ last' = Call("delete_event", key, seq, "", "Ok", event)
                /\ written' = [written EXCEPT ![key] = WrittenAfter(@, "Delete", seq, "", id)]
                /\ recovered' = NoRecovery
    /\ nops' = nops + 1
    /\ boot' = "running"
    /\ script' = ScriptAfter("delete_event", key)
    /\ UNCHANGED <<clock, alive, memtable, sstables, key_to_id_map, issued, budget, server, cluster>>

\* RDeeBee::try_memtable_compact: the memtable is written to a new table
\* file, the table is pushed, a new WAL replaces the current one (whose
\* BufWriter is flushed when it is dropped).
TryMemtableCompact ==
    /\ alive
    /\ nops < budget
    /\ memtable' = MemTableNew
    /\ sstables' = Append(sstables, clock)
    /\ disk' = FileOpenAppend(
                  WalFlushDisk(SaveToDisk(disk, clock, memtable), wal),
                  WalPath(clock + 1))
    /\ wal' = WalNew(clock + 1)
    /\ clock' = clock + 2
    /\ last' = Call("try_memtable_compact", NoKey, 0, "", "Ok", NoEvent)
    /\ nops' = nops + 1
    /\ boot' = "running"
    /\ recovered' = NoRecovery
    /\ script' = ScriptAfter("try_memtable_compact", NoKey)
    /\ UNCHANGED <<alive, bloomfilter, key_to_id_map, issued, written, budget, server, cluster>>

\* The engine object is gone; what it held in memory is reset.
EngineGone ==
    /\ alive' = FALSE
    /\ wal' = WalNew(0)
    /\ memtable' = MemTableNew
    /\ sstables' = << >>
    /\ bloomfilter' = {}
    /\ key_to_id_map' = [k \in Keys |-> NoId]

\* RDeeBee::try_sstables_compact.  After remove(0) the table that was at
\* position 2 is at position 1, so remove(1) takes the table that was third
\* in the list, and panics when only two tables were there.
TrySstablesCompact ==
    /\ alive
    /\ nops < budget
    /\ nops' = nops + 1
    /\ recovered' = NoRecovery
    /\ script' = ScriptAfter("try_sstables_compact", NoKey)
    /\ UNCHANGED <<issued, written, budget, server, cluster>>
    /\ IF Len(sstables) < 2
       THEN /\ last' = Call("try_sstables_compact", NoKey, 0, "", "Ok", NoEvent)
            /\ boot' = "running"
            /\ UNCHANGED <<clock, disk, alive, wal, memtable, sstables,
                           bloomfilter, key_to_id_map>>
       ELSE IF Len(sstables) = 2
       THEN \* remove(1) is out of bounds: the call panics after remove(0).
            \* Either the unwinding drops the engine (its WAL is flushed by
            \* the drop), or it ends at a task boundary (the compaction task of
            \* src/bin/server.rs) and the engine lives on without the table.
            /\ last' = Call("try_sstables_compact", NoKey, 0, "", "panic", NoEvent)
            /\ UNCHANGED clock
            /\ \/ /\ disk' = WalFlushDisk(disk, wal)
                  /\ EngineGone
                  /\ boot' = "panicked"
               \/ /\ sstables' = Tail(sstables)
                  /\ boot' = "running"
                  /\ UNCHANGED <<disk, alive, wal, memtable, bloomfilter,
                                 key_to_id_map>>
       ELSE /\ disk' = MergeDisk(disk, sstables[1], sstables[3], clock)
            /\ sstables' = << clock, sstables[2] >> \o SubSeq(sstables, 4, Len(sstables))
            /\ clock' = clock + 1
            /\ last' = Call("try_sstables_compact", NoKey, 0, "", "Ok", NoEvent)
            /\ boot' = "running"
            /\ UNCHANGED <<alive, wal, memtable, bloomfilter, key_to_id_map>>

\* RDeeBee::recover.
Recover ==
    /\ alive
    /\ nops < budget
    /\ memtable' = RecoverMemtable(disk)
    /\ sstables' = RecoverSstable(disk)
    /\ last' = Call("recover", NoKey, 0, "", "Ok", NoEvent)
    /\ recovered' = [runs |-> recovered.runs + 1,
                      memtable |-> memtable',
                      sstables |-> sstables',
                      tables |-> TableContents(disk, sstables')]
    /\ boot' = IF boot = "reopened" THEN "recovered" ELSE "running"
    /\ nops' = nops + 1
    /\ script' = -1
    /\ UNCHANGED <<clock, disk, alive, wal, bloomfilter, key_to_id_map,
                   issued, written, budget, server, cluster>>

\* The process is killed: whatever the BufWriter of the WAL held is lost.
Crash ==
    /\ alive
    /\ nops < budget
    /\ EngineGone
    /\ last' = Call("crash", NoKey, 0, "", "Ok", NoEvent)
    /\ boot' = "crashed"
    /\ nops' = nops + 1
    /\ script' = -1
    /\ UNCHANGED <<clock, disk, issued, written, recovered, budget, server, cluster>>

\* ------------------------------------------------------------------------
\* Properties of the storage engine
\* ------------------------------------------------------------------------

\* C1: every add_event(Write, k, p) answered Ok is immediately followed by
\* get_event_by_key(k) answering Ok with payload p.
C1_WriteThenRead ==
    (alive /\ last.op = "add_event" /\ last.ev.action = "Write" /\ last.status = "Ok")
        => /\ GetEventByKey(last.key).status = "Ok"
           /\ GetEventByKey(last.key).payload = last.payload

\* C2: once delete_event(k) has answered Ok, get_event_by_key(k) answers
\* Invalid_Key, also after later compactions, until k is written again.
C2_DeleteThenRead ==
    \A k \in Keys :
        (alive /\ written[k].st = "deleted")
            => GetEventByKey(k).status = "Invalid_Key"

\* The events the chunks of a file were written for.
FileEvents(file) == { file[i].ev : i \in 1..Len(file) }

\* C3: every event in the current memtable has been appended to the current
\* WAL and has reached the WAL file.
C3_MemtableInWalFile ==
    alive => \A t \in DOMAIN memtable.entries :
                memtable.entries[t] \in FileEvents(disk[WalPath(wal.path)])

\* No table file exists: no memtable was ever sealed in this directory.
NoCompaction == \A n \in DOMAIN disk : n[1] # "table"

\* C4: after writes to k (the last with payload p), a crash without any
\* compaction, a reopen and recover(), get_event_by_key(k) answers Ok with p.
C4_CrashRecoverRead ==
    \A k \in Keys :
        (alive /\ boot = "recovered" /\ NoCompaction /\ written[k].st = "written")
            => /\ GetEventByKey(k).status = "Ok"
               /\ GetEventByKey(k).payload = written[k].payload

\* The tids the memtable or an SSTable of the list refers to.
ReferencedTids ==
    DOMAIN memtable.entries
    \cup UNION { { e.tid : e \in FileEvents(disk[TablePath(sstables[i])]) }
                 : i \in 1..Len(sstables) }

\* C7: the bloom filter finds every tid that the memtable or an SSTable
\* refers to (no false negative).
C7_NoFalseNegative ==
    alive => \A t \in ReferencedTids : BFFind(bloomfilter, t)

\* C8: for a key that was only written, get_event_by_key returns the event
\* with the highest seq among the writes applied so far.
C8_HighestSeqRead ==
    \A k \in Keys :
        (alive /\ written[k].st = "written")
            => /\ GetEventByKey(k).status = "Ok"
               /\ GetRetEvent(k).seq = written[k].hi

\* A step that is a call of try_memtable_compact.
SealStep == last'.op = "try_memtable_compact" /\ nops' = nops + 1

\* C9: after try_memtable_compact the memtable is empty, the SSTable list is
\* one longer with the new table at its end, and contains_event answers for
\* every tid handed out before as it did before the call.
C9_SealKeepsContains ==
    [][ SealStep =>
          /\ memtable' = MemTableNew
          /\ Len(sstables') = Len(sstables) + 1
          /\ SubSeq(sstables', 1, Len(sstables)) = sstables
          /\ \A t \in Tids : ContainsEvent(t)' = ContainsEvent(t) ]_vars

\* A step that is a call of recover() on a directory that no call has
\* written since the previous recover().
RecoverAgainStep ==
    last'.op = "recover" /\ nops' = nops + 1 /\ recovered.runs > 0

\* C10: recover() on a directory not written since the previous recover()
\* (in the same or in the previous lifetime of the engine) yields the same
\* memtable and the same SSTable list with the same contents.
C10_RecoverIdempotent ==
    [][ RecoverAgainStep =>
          /\ memtable' = recovered.memtable
          /\ sstables' = recovered.sstables
          /\ TableContents(disk', sstables') = recovered.tables ]_vars

\* C10 witness: recover() has run again, after a crash and a reopen, on a
\* directory that holds WAL events and a table.
C10_Witness ==
    /\ recovered.runs >= 2
    /\ boot = "recovered"
    /\ last.op = "recover"
    /\ memtable.identifiers # << >>
    /\ sstables # << >>

Next ==
    \/ \E key \in Keys, op \in AddOps, seq \in Seqs, payload \in ReqPayloads :
          AddEvent(key, op, seq, payload)
    \/ \E key \in Keys, seq \in Seqs : DeleteEvent(key, seq)
    \/ TryMemtableCompact
    \/ TrySstablesCompact
    \/ Recover
    \/ Crash
    \/ New

Spec == Init /\ [][Next]_vars

\* ------------------------------------------------------------------------
\* The engine with each call carrying the number of the call as its seq
\* ------------------------------------------------------------------------
NextRecover ==
    \/ \E key \in Keys, payload \in ReqPayloads :
          AddEvent(key, "Write", nops + 1, payload)
    \/ \E key \in Keys : DeleteEvent(key, nops + 1)
    \/ TryMemtableCompact
    \/ TrySstablesCompact
    \/ Recover
    \/ Crash
    \/ New

SpecRecover == Init /\ [][NextRecover]_vars

\* ------------------------------------------------------------------------
\* The engine under longer runs of writes, deletes and compactions
\* ------------------------------------------------------------------------
\* Number of calls in a run of SpecSeal: the length of SealMergeScript.
MaxSealOps == 8

InitSeal ==
    /\ clock = 2
    /\ disk = [n \in {WalPath(1)} |-> << >>]
    /\ alive = TRUE
    /\ wal = WalNew(1)
    /\ memtable = MemTableNew
    /\ sstables = << >>
    /\ bloomfilter = {}
    /\ key_to_id_map = [k \in Keys |-> NoId]
    /\ issued = {}
    /\ nops = 0
    /\ budget = MaxSealOps
    /\ server = NoServer
    /\ cluster = NoCluster
    /\ last = Call("new", NoKey, 0, "", "Ok", NoEvent)
    /\ written = [k \in Keys |-> NoWrite]
    /\ boot = "fresh"
    /\ recovered = NoRecovery
    /\ script = 0

NextSeal ==
    \/ \E key \in Keys : AddEvent(key, "Write", nops + 1, "p")
    \/ \E key \in Keys : DeleteEvent(key, nops + 1)
    \/ TryMemtableCompact
    \/ TrySstablesCompact

SpecSeal == InitSeal /\ [][NextSeal]_vars

\* ------------------------------------------------------------------------
\* SSTable::merge on every pair of sorted tables
\* ------------------------------------------------------------------------
\* What a table holds for a tid: nothing, a Write (with or without the byte
\* '|' in its payload) or a Delete.
TableKinds == {"absent", "Write", "WritePipe", "Delete"}

TableEvent(id, kind, seq) ==
    CASE kind = "Write" -> EventSetPayload(EventWithId(id, "Write", seq), "p")
      [] kind = "WritePipe" -> EventSetPayload(EventWithId(id, "Write", seq), "q|r")
      [] OTHER -> EventWithId(id, "Delete", seq)

\* The events of a table in strictly ascending tid order, from tid id on.
RECURSIVE TableFrom(_, _, _)
TableFrom(kinds, id, seq) ==
    IF id > MaxTid THEN << >>
    ELSE (IF kinds[id] = "absent" THEN << >>
          ELSE << TableEvent(id, kinds[id], seq) >>)
         \o TableFrom(kinds, id + 1, seq)

\* Two saved tables A (events of seq 1) and B (events of seq 2) with epochs
\* 1 and 2 in either order; self is the first of the list, other the second.
InitMerge ==
    /\ \E kindsA \in [Tids -> TableKinds], kindsB \in [Tids -> TableKinds],
          epochA \in {1, 2} :
          /\ sstables = << epochA, 3 - epochA >>
          /\ disk = [n \in {TablePath(1), TablePath(2)} |->
                       IF n = TablePath(epochA)
                       THEN EncodeAll(TableFrom(kindsA, 1, 1))
                       ELSE EncodeAll(TableFrom(kindsB, 1, 2))]
    /\ clock = 3
    /\ alive = TRUE
    /\ wal = WalNew(0)
    /\ memtable = MemTableNew
    /\ bloomfilter = {}
    /\ key_to_id_map = [k \in Keys |-> NoId]
    /\ issued = {}
    /\ nops = 0
    /\ budget = 1
    /\ server = NoServer
    /\ cluster = NoCluster
    /\ last = Call("tables", NoKey, 0, "", "Ok", NoEvent)
    /\ written = [k \in Keys |-> NoWrite]
    /\ boot = "fresh"
    /\ recovered = NoRecovery
    /\ script = -1

\* self.merge(other) on the two tables.
Merge ==
    /\ alive
    /\ nops < budget
    /\ Len(sstables) = 2
    /\ disk' = MergeDisk(disk, sstables[1], sstables[2], clock)
    /\ sstables' = << clock >>
    /\ clock' = clock + 1
    /\ last' = Call("merge", NoKey, 0, "", "Ok", NoEvent)
    /\ nops' = nops + 1
    /\ UNCHANGED <<alive, wal, memtable, bloomfilter, key_to_id_map, issued,
                   budget, server, cluster, written, boot, recovered, script>>

NextMerge == Merge

SpecMerge == InitMerge /\ [][NextMerge]_vars

\* The events written to the table of the list at position i.
EventsOf(d, tables, i) == FileEvents(d[TablePath(tables[i])])

\* The event merge has to take for a tid: the one of the table with the
\* newer epoch when both tables have one.
MergeTake(d, tables, id) ==
    LET newer == IF tables[1] > tables[2] THEN 1 ELSE 2
        older == 3 - newer
    IN  IF \E e \in EventsOf(d, tables, newer) : e.tid = id
        THEN { e \in EventsOf(d, tables, newer) : e.tid = id }
        ELSE { e \in EventsOf(d, tables, older) : e.tid = id }

\* The tids that appear with action Delete in either table.
MergeDeleted(d, tables) ==
    { e.tid : e \in { x \in EventsOf(d, tables, 1) \cup EventsOf(d, tables, 2) :
                        x.action = "Delete" } }

MergeExpected(d, tables) ==
    UNION { MergeTake(d, tables, id) : id \in Tids \ MergeDeleted(d, tables) }

\* C5: the table merge(A, B) writes holds the events of A and B without
\* those of a tid that either deletes, taking the newer table's event for a
\* tid that both hold.
C5_MergeEvents ==
    [][ last'.op = "merge" =>
          EventsOf(disk', sstables', 1) = MergeExpected(disk, sstables) ]_vars

\* C6: at the end of the scenario (a written and sealed, b written and
\* sealed, a deleted and sealed, try_sstables_compact run twice) the calls
\* have returned and the engine holds a single SSTable with exactly the
\* event of b.
C6_TombstoneErasesHistory ==
    script = Len(SealMergeScript)
        => /\ alive
           /\ last.status = "Ok"
           /\ Len(sstables) = 1
           /\ \A e \in EventsOf(disk, sstables, 1) : e.tid = written["b"].tid
           /\ \E e \in EventsOf(disk, sstables, 1) : e.tid = written["b"].tid

\* ------------------------------------------------------------------------
\* The engine called through its public interface, with failing WAL writes
\* ------------------------------------------------------------------------
\* The Operation values a Request handed to add_event can carry.
RequestOps == {"Write", "Read", "Delete"}

\* Number of calls in a run of SpecErr.
MaxErrOps == 4

InitErr ==
    /\ clock = 2
    /\ disk = [n \in {WalPath(1)} |-> << >>]
    /\ alive = TRUE
    /\ wal = WalNew(1)
    /\ memtable = MemTableNew
    /\ sstables = << >>
    /\ bloomfilter = {}
    /\ key_to_id_map = [k \in Keys |-> NoId]
    /\ issued = {}
    /\ nops = 0
    /\ budget = MaxErrOps
    /\ server = NoServer
    /\ cluster = NoCluster
    /\ last = Call("new", NoKey, 0, "", "Ok", NoEvent)
    /\ written = [k \in Keys |-> NoWrite]
    /\ boot = "fresh"
    /\ recovered = NoRecovery
    /\ script = 0

NextErr ==
    \/ \E key \in Keys, op \in RequestOps : AddEvent(key, op, nops + 1, "p")
    \/ \E key \in Keys, op \in RequestOps : AddEventWalError(key, op, nops + 1, "p")
    \/ \E key \in Keys : AddEventInvalidOp(key, nops + 1)
    \/ \E key \in Keys : DeleteEvent(key, nops + 1)
    \/ TryMemtableCompact

SpecErr == InitErr /\ [][NextErr]_vars

\* A step that is a call of add_event or delete_event that made an event.
EventStep(k) ==
    /\ nops' = nops + 1
    /\ last'.op \in {"add_event", "delete_event"}
    /\ last'.key = k
    /\ last'.ev # NoEvent

\* C17: within the lifetime of one engine, a key that has a tid keeps it, and
\* every event add_event or delete_event makes for the key carries that tid.
C17_OneTidPerKey ==
    [][ (alive /\ alive') =>
          \A k \in Keys :
              key_to_id_map[k] # NoId =>
                  /\ key_to_id_map'[k] = key_to_id_map[k]
                  /\ EventStep(k) => last'.ev.tid = key_to_id_map[k] ]_vars

\* C17 witness: a key that was deleted is written again, after a seal, and
\* the event carries the tid the key map holds.
C17_Witness ==
    /\ alive
    /\ last.op = "add_event"
    /\ written[last.key].st = "rewritten"
    /\ sstables # << >>
    /\ last.ev.tid = key_to_id_map[last.key]

\* A step that is a call of add_event in which an event was made and the WAL
\* took nothing.
WalErrorStep ==
    /\ nops' = nops + 1
    /\ last'.op = "add_event"
    /\ last'.ev # NoEvent
    /\ wal' = wal
    /\ disk' = disk

\* C18: when the WAL append fails inside add_event the answer is
\* Server_Error and the memtable holds what it held before the call.
C18_WalErrorKeepsMemtable ==
    [][ WalErrorStep =>
          /\ last'.status = "Server_Error"
          /\ memtable' = memtable ]_vars

\* C18 witness: add_event has answered Server_Error on an engine whose
\* memtable holds events.
C18_Witness ==
    /\ alive
    /\ last.op = "add_event"
    /\ last.status = "Server_Error"
    /\ memtable.identifiers # << >>

\* C19: add_event answers Invalid_Op to every request whose op is neither
\* Write nor Delete, and such a call changes neither the WAL, the memtable,
\* the bloom filter nor the key map.
C19_RejectsOtherOps ==
    [][ (nops' = nops + 1 /\ last'.op = "add_event"
         /\ last'.ev.action \notin {"Write", "Delete"})
        => /\ last'.status = "Invalid_Op"
           /\ UNCHANGED <<wal, disk, memtable, bloomfilter, key_to_id_map>> ]_vars

\* C20: delete_event on a key without entry in the key map answers
\* Invalid_Key and changes neither the WAL, the memtable, the bloom filter
\* nor the key map.
C20_DeleteUnknownKey ==
    [][ (alive /\ nops' = nops + 1 /\ last'.op = "delete_event"
         /\ key_to_id_map[last'.key] = NoId)
        => /\ last'.status = "Invalid_Key"
           /\ UNCHANGED <<wal, disk, memtable, bloomfilter, key_to_id_map>> ]_vars

\* C20 witness: delete_event has answered Invalid_Key on an engine that
\* holds another key's event.
C20_Witness ==
    /\ alive
    /\ last.op = "delete_event"
    /\ last.status = "Invalid_Key"
    /\ memtable.identifiers # << >>
    /\ bloomfilter # {}

\* ------------------------------------------------------------------------
\* The server (src/bin/server.rs, src/bin/rdeebee_server/mod.rs)
\* ------------------------------------------------------------------------
\* Number of requests the server accepts in one behaviour.
MaxReqs == 3
\* The memtable size above which the compactor seals, in events (the
\* server's constant is 500 bytes).
COMPACTION_SIZE == 0

WireOps == {"Write", "Delete", "Read"}
NoRequest == [id |-> 0, key |-> NoKey, op |-> "None"]
NoRead == [key |-> NoKey, need |-> {}, obs |-> {}]

\* parking_lot::RwLock: w is the task that holds the write guard, r the
\* tasks that hold read guards.
LockFree == [w |-> "none", r |-> {}]

\* A try_write that does not look at the read guards.
TryWriteIgnoringReaders(lock) == lock.w = "none"

\* RwLock::try_write succeeds when no guard is held.
TryWrite(lock) == lock.w = "none" /\ lock.r = {}

\* RwLock::try_read succeeds when no write guard is held.
TryRead(lock) == lock.w = "none"

\* A pop from the back of the queue.
PopBack(q) == [event |-> q[Len(q)], rest |-> SubSeq(q, 1, Len(q) - 1)]

\* VecDeque::pop_front.
PopFront(q) == [event |-> Head(q), rest |-> Tail(q)]

\* The state of main() when the three futures are joined and the listener
\* accepts: the engine is new, the queue and the channels are empty.
ServerUp ==
    [on |-> TRUE,
     pc |-> [handler |-> "idle", writer |-> "recv", compactor |-> "recv"],
     req |-> NoRequest,       \* the request of the running handle_client
     added |-> FALSE,         \* its event_added
     resp |-> "None",         \* the status of its response
     need |-> {},             \* the writes of its key answered Ok before it began
     queue |-> << >>,         \* event_queue
     qlock |-> "free",        \* holder of the write guard of event_queue
     events |-> << >>,        \* messages in flight on event_sender
     compactions |-> << >>,   \* messages in flight on compaction_sender
     elock |-> LockFree,      \* the RwLock around the engine
     cur |-> NoRequest,       \* the request the writer task is applying
     enqueued |-> << >>,      \* requests pushed onto the queue, in order
     called |-> << >>,        \* requests the writer task called the engine for
     applied |-> << >>,       \* requests the engine has applied
     acked |-> {},            \* Write and Delete requests answered Ok
     read |-> NoRead,         \* the last read that reached the engine
     msize |-> 0,             \* get_memtable_size, in events
     nsst |-> 0,              \* number of SSTables of the engine
     nreq |-> 0]              \* requests accepted so far

InitServer ==
    /\ clock = 2
    /\ disk = [n \in {WalPath(1)} |-> << >>]
    /\ alive = TRUE
    /\ wal = WalNew(1)
    /\ memtable = MemTableNew
    /\ sstables = << >>
    /\ bloomfilter = {}
    /\ key_to_id_map = [k \in Keys |-> NoId]
    /\ issued = {}
    /\ nops = 0
    /\ budget = 0
    /\ last = Call("new", NoKey, 0, "", "Ok", NoEvent)
    /\ written = [k \in Keys |-> NoWrite]
    /\ boot = "fresh"
    /\ recovered = NoRecovery
    /\ script = -1
    /\ server = ServerUp
    /\ cluster = NoCluster

ServerStep == server.on /\ UNCHANGED <<engineVars, cluster>>

\* The ids of the requests of a sequence that are for the key.
IdsFor(reqs, key) == { reqs[i].id : i \in { j \in 1..Len(reqs) : reqs[j].key = key } }

\* main_task accepts a connection and spawns handle_client, which reads and
\* decodes the request; the next accept waits for the handler to end.
HandlerAccept(key, op) ==
    /\ ServerStep
    /\ server.pc.handler = "idle"
    /\ server.nreq < MaxReqs
    /\ server' = [server EXCEPT
          !.nreq = @ + 1,
          !.req = [id |-> server.nreq + 1, key |-> key, op |-> op],
          !.added = FALSE,
          !.resp = "None",
          !.need = { id \in server.acked : id \in IdsFor(server.enqueued, key) },
          !.pc.handler = IF op = "Read" THEN "get_event" ELSE "enqueue"]

\* handle_client, Write or Delete: event_queue.try_write().
HandlerTryLockQueue ==
    /\ ServerStep
    /\ server.pc.handler = "enqueue"
    /\ server' = IF server.qlock = "free"
                 THEN [server EXCEPT !.qlock = "handler", !.pc.handler = "push"]
                 ELSE [server EXCEPT !.resp = "Server_Error", !.pc.handler = "len"]

\* handle_client: push_back under the write guard, which is then dropped.
HandlerPush ==
    /\ ServerStep
    /\ server.pc.handler = "push"
    /\ server' = [server EXCEPT
          !.queue = Append(@, server.req),
          !.enqueued = Append(@, server.req),
          !.added = TRUE,
          !.resp = "Ok",
          !.qlock = "free",
          !.pc.handler = "len"]

\* handle_client: event_queue.read().len(), which waits for the write guard.
HandlerLen ==
    /\ ServerStep
    /\ server.pc.handler = "len"
    /\ server.qlock = "free"
    /\ server' = [server EXCEPT !.pc.handler = "notify_writer"]

\* handle_client: event_notifier.send(event_added).
HandlerNotifyWriter ==
    /\ ServerStep
    /\ server.pc.handler = "notify_writer"
    /\ server' = [server EXCEPT !.events = Append(@, server.added),
                                !.pc.handler = "notify_compactor"]

\* handle_client: compaction_notifier.send(event_added).
HandlerNotifyCompactor ==
    /\ ServerStep
    /\ server.pc.handler = "notify_compactor"
    /\ server' = [server EXCEPT !.compactions = Append(@, server.added),
                                !.pc.handler = "respond"]

\* handle_client, Read: RDeeBeeServer::get_event takes try_read.
HandlerTryRead ==
    /\ ServerStep
    /\ server.pc.handler = "get_event"
    /\ server' = IF TryRead(server.elock)
                 THEN [server EXCEPT !.elock.r = @ \cup {"handler"},
                                     !.pc.handler = "reading"]
                 ELSE [server EXCEPT !.resp = "Server_Error",
                                     !.pc.handler = "respond"]

\* get_event_by_key under the read guard: the read observes what the engine
\* has applied and the engine's response is sent; the guard is dropped.
HandlerReadDone ==
    /\ ServerStep
    /\ server.pc.handler = "reading"
    /\ server' = [server EXCEPT
          !.read = [key |-> server.req.key, need |-> server.need,
                    obs |-> IdsFor(server.applied, server.req.key)],
          !.elock.r = @ \ {"handler"},
          !.resp = "Engine",
          !.pc.handler = "respond"]

\* send_response: the client has its answer and handle_client ends.
HandlerRespond ==
    /\ ServerStep
    /\ server.pc.handler = "respond"
    /\ server' = [server EXCEPT
          !.acked = IF server.resp = "Ok" /\ server.req.op # "Read"
                    THEN @ \cup {server.req.id} ELSE @,
          !.req = NoRequest,
          !.pc.handler = "idle"]

\* add_events_to_db and compaction_thread are joined in one task
\* (tokio::join! in main): each runs from one recv().await to the next
\* without the other running in between.
MainTaskFree(task) ==
    \A t \in {"writer", "compactor"} \ {task} : server.pc[t] \in {"recv", "done"}

\* add_events_to_db: a message arrives; on true the queue is locked with
\* try_write, and left alone when the lock is taken.
WriterRecv ==
    /\ ServerStep
    /\ server.pc.writer = "recv"
    /\ MainTaskFree("writer")
    /\ server.events # << >>
    /\ server' = IF Head(server.events) /\ server.qlock = "free"
                 THEN [server EXCEPT !.events = Tail(@), !.qlock = "writer",
                                     !.pc.writer = "drain"]
                 ELSE [server EXCEPT !.events = Tail(@)]

\* add_events_to_db: the loop over the queue.  The request at the front is
\* popped and handed to RDeeBeeServer::add_event or delete_event, which take
\* try_write on the engine and return Err when it is taken.
WriterPop ==
    /\ ServerStep
    /\ server.pc.writer = "drain"
    /\ server' =
          IF server.queue = << >>
          THEN [server EXCEPT !.qlock = "free", !.pc.writer = "recv"]
          ELSE IF TryWrite(server.elock)
          THEN [server EXCEPT !.queue = PopFront(server.queue).rest,
                              !.called = Append(@, PopFront(server.queue).event),
                              !.cur = PopFront(server.queue).event,
                              !.elock.w = "writer",
                              !.pc.writer = "apply"]
          ELSE [server EXCEPT !.queue = PopFront(server.queue).rest,
                              !.called = Append(@, PopFront(server.queue).event)]

\* RDeeBee::add_event or delete_event under the write guard, which is then
\* dropped.  A Write adds an event to the memtable.
WriterApply ==
    /\ ServerStep
    /\ server.pc.writer = "apply"
    /\ server' = [server EXCEPT
          !.applied = Append(@, server.cur),
          !.msize = IF server.cur.op = "Write" THEN @ + 1 ELSE @,
          !.cur = NoRequest,
          !.elock.w = "none",
          !.pc.writer = "drain"]

\* compaction_thread: a message arrives; on true get_memtable_size takes
\* try_read on the engine.
CompactorRecv ==
    /\ ServerStep
    /\ server.pc.compactor = "recv"
    /\ MainTaskFree("compactor")
    /\ server.compactions # << >>
    /\ server' = IF Head(server.compactions)
                 THEN [server EXCEPT !.compactions = Tail(@),
                                     !.elock.r = @ \cup {"compactor"},
                                     !.pc.compactor = "sizing"]
                 ELSE [server EXCEPT !.compactions = Tail(@)]

\* compaction_thread: the size is compared with COMPACTION_SIZE.
CompactorSized ==
    /\ ServerStep
    /\ server.pc.compactor = "sizing"
    /\ server' = [server EXCEPT
          !.elock.r = @ \ {"compactor"},
          !.pc.compactor = IF server.msize > COMPACTION_SIZE THEN "seal" ELSE "recv"]

\* RDeeBeeServer::compact_memtable: try_write, then the memtable is swapped
\* for an empty one; when the lock is taken compaction_thread returns Err.
CompactorTrySeal ==
    /\ ServerStep
    /\ server.pc.compactor = "seal"
    /\ server' = IF TryWrite(server.elock)
                 THEN [server EXCEPT !.elock.w = "compactor", !.msize = 0,
                                     !.pc.compactor = "swapped"]
                 ELSE [server EXCEPT !.pc.compactor = "done"]

\* try_memtable_compact: the new SSTable is pushed, the WAL is replaced, the
\* guard is dropped.
CompactorPush ==
    /\ ServerStep
    /\ server.pc.compactor = "swapped"
    /\ server' = [server EXCEPT !.nsst = @ + 1, !.elock.w = "none",
                                !.pc.compactor = "merge"]

\* RDeeBeeServer::compact_sstables: try_write; when the lock is taken
\* compaction_thread returns Err.
CompactorTryMerge ==
    /\ ServerStep
    /\ server.pc.compactor = "merge"
    /\ server' = IF TryWrite(server.elock)
                 THEN [server EXCEPT !.elock.w = "compactor",
                                     !.pc.compactor = "merging"]
                 ELSE [server EXCEPT !.pc.compactor = "done"]

\* try_sstables_compact under the write guard.  With two tables it panics
\* in the main task, which ends the process.
CompactorMerged ==
    /\ ServerStep
    /\ server.pc.compactor = "merging"
    /\ server' =
          IF server.nsst = 2
          THEN [server EXCEPT
                  !.pc = [handler |-> "dead", writer |-> "dead", compactor |-> "dead"],
                  !.elock = LockFree]
          ELSE [server EXCEPT !.nsst = IF @ < 2 THEN @ ELSE @ - 1,
                              !.elock.w = "none",
                              !.pc.compactor = "recv"]

NextServer ==
    \/ \E key \in Keys, op \in WireOps : HandlerAccept(key, op)
    \/ HandlerTryLockQueue
    \/ HandlerPush
    \/ HandlerLen
    \/ HandlerNotifyWriter
    \/ HandlerNotifyCompactor
    \/ HandlerTryRead
    \/ HandlerReadDone
    \/ HandlerRespond
    \/ WriterRecv
    \/ WriterPop
    \/ WriterApply
    \/ CompactorRecv
    \/ CompactorSized
    \/ CompactorTrySeal
    \/ CompactorPush
    \/ CompactorTryMerge
    \/ CompactorMerged

SpecServer == InitServer /\ [][NextServer]_vars

\* C11: a read that reaches the engine observes every Write and Delete of
\* its key that was answered Ok before the read began.
C11_ReadSeesAckedWrites ==
    server.on => server.read.need \subseteq server.read.obs

\* C12: the writer task calls the engine for the requests in the order in
\* which they were pushed onto the queue.
C12_AppliedInEnqueueOrder ==
    server.on =>
        /\ Len(server.called) <= Len(server.enqueued)
        /\ \A i \in 1..Len(server.called) : server.called[i] = server.enqueued[i]

\* C12 witness: the writer task has called the engine for two requests on
\* one key while a third request waits in the queue.
C12_Witness ==
    /\ server.on
    /\ Len(server.called) = 2
    /\ server.called[1].key = server.called[2].key
    /\ server.queue # << >>

\* The tasks inside a mutating engine call and inside a reading one.
EngineWriters ==
    { t \in {"writer"} : server.pc.writer = "apply" }
    \cup { t \in {"compactor"} : server.pc.compactor \in {"swapped", "merging"} }

EngineReaders ==
    { t \in {"handler"} : server.pc.handler = "reading" }
    \cup { t \in {"compactor"} : server.pc.compactor = "sizing" }

\* C13: no read of the engine runs while a mutating call is in progress, and
\* no two mutating calls run at the same time.
C13_WritersExclusive ==
    server.on =>
        /\ Cardinality(EngineWriters) <= 1
        /\ EngineWriters # {} => EngineReaders = {}

\* C13 witness: a read was turned away with Server_Error while the
\* compactor is between the memtable swap and the push of the new SSTable.
C13_Witness ==
    /\ server.on
    /\ server.pc.compactor = "swapped"
    /\ server.pc.handler = "respond"
    /\ server.req.op = "Read"
    /\ server.resp = "Server_Error"

\* ---------------------------------------------------------------------
\* Cluster configuration (src/src/cluster_ops/config.rs, mod.rs)
\* ---------------------------------------------------------------------
\* Option::None of a node id, a group id or a grouping index.
NoGroup == -1
NoNodeId == -1
\* Option::None of a pair of keys.
NoKeys == << >>

\* Keys are kept as the sequence of their dash separated parts.
election_key_prefix_gen(dbname, group, num) ==
    <<"election", dbname, "group", group, "leader", num>>
leader_key_gen(dbname, group, num) == <<"leader", dbname, "group", group, num>>

\* Range start..end of Rust, end excluded.
Range(start, end) == start..(end - 1)

\* The loop of Config::new that fills groupings: lists of `reads` groups are
\* pushed until the start of the next one is above `groups`.
RECURSIVE GroupingsLoop(_, _, _, _)
GroupingsLoop(start, groups, reads, groupings) ==
    LET end == start + reads
        pushed == Append(groupings, Range(start, end))
    IN  IF end > groups THEN pushed
        ELSE GroupingsLoop(end, groups, reads, pushed)

\* Config::new. The three maps are filled by loops over 0..group_size.
ConfigNew(groups, group_size, reads) ==
    [ groups     |-> groups,
      group_size |-> group_size,
      reads      |-> reads,
      groupings  |-> GroupingsLoop(0, groups, reads, << >>),
      election_prefixes |->
          [g \in Range(0, group_size) |->
              << election_key_prefix_gen("db", g, 1),
                 election_key_prefix_gen("db", g, 2) >>],
      node_group_map |->
          [id \in Range(0, group_size * group_size) |-> id \div group_size],
      leader_keys |->
          [g \in Range(0, group_size) |->
              << leader_key_gen("db", g, 1), leader_key_gen("db", g, 2) >>] ]

\* Config::group_id
group_id(config, node_id) ==
    IF node_id \in DOMAIN config.node_group_map
    THEN config.node_group_map[node_id]
    ELSE NoGroup

\* Config::groupings_index: the position of the first list that contains
\* the group.
groupings_index(config, group) ==
    LET hits == { i \in 1..Len(config.groupings) : group \in config.groupings[i] }
    IN  IF hits = {} THEN NoGroup
        ELSE (CHOOSE i \in hits : \A j \in hits : i <= j) - 1

\* Config::leader_key
leader_key(config, group) ==
    LET i == groupings_index(config, group)
    IN  IF i = NoGroup \/ i \notin DOMAIN config.leader_keys THEN NoKeys
        ELSE config.leader_keys[i]

\* Config::election_keys
election_keys(config, group) ==
    LET i == groupings_index(config, group)
    IN  IF i = NoGroup \/ i \notin DOMAIN config.election_prefixes THEN NoKeys
        ELSE config.election_prefixes[i]

\* ---------------------------------------------------------------------
\* Cluster node: identity, registration and the steady state loop
\* (src/src/cluster_ops/node.rs), against a coordinator with leases,
\* locks and keys.
\* ---------------------------------------------------------------------
NumNodes == 3
MaxKills == 1
\* The configuration the nodes of the cluster read from config.yaml.
ClusterGroups == 2
GroupSize == 2
Reads == 2

Nodes == 1..NumNodes
Slots == {1, 2}
NoNode == 0
NoSlot == 0

\* What the coordinator holds when the nodes start: the groups announced
\* under failover_id_key_prefix and the value of id_key (NoNodeId: no key).
FailoverInputs == SUBSET {0, 1}
IdKeyInputs == {NoNodeId, 2, 4}

\* The nodes as Node::new leaves them (a lease granted, node_id None,
\* nodetype Member) and the coordinator.
ClusterUp(failover, id_key) ==
    [ on        |-> TRUE,
      config    |-> ConfigNew(ClusterGroups, GroupSize, Reads),
      up        |-> [n \in Nodes |-> TRUE],
      pc        |-> [n \in Nodes |-> "node_id"],
      nodetype  |-> [n \in Nodes |-> "Member"],
      lease     |-> [n \in Nodes |-> TRUE],
      node_id   |-> [n \in Nodes |-> NoNodeId],   \* the field self.node_id
      group_key |-> [n \in Nodes |-> NoGroup],    \* the group of self.group_key
      id        |-> [n \in Nodes |-> NoNodeId],   \* what node_id() returned
      via       |-> [n \in Nodes |-> NoGroup],    \* the failover slot it took
      kvs       |-> [n \in Nodes |-> << >>],      \* failover keys still to try
      key       |-> [n \in Nodes |-> NoSlot],     \* the slot of its campaign
      members   |-> {},                           \* membership keys
      failover  |-> failover,                     \* failover keys, by group
      id_key    |-> id_key,
      idlock    |-> << >>,                        \* requests for id-key-lock
      grouplock |-> [g \in {0, 1} |-> << >>],     \* for group-add-lock-<g>
      locks     |-> [k \in Slots |-> << >>],      \* for the election keys
      leader    |-> [k \in Slots |-> NoNode],     \* the leader keys
      kills     |-> 0 ]

InitCluster ==
    /\ clock = 2
    /\ disk = [n \in {WalPath(1)} |-> << >>]
    /\ alive = TRUE
    /\ wal = WalNew(1)
    /\ memtable = MemTableNew
    /\ sstables = << >>
    /\ bloomfilter = {}
    /\ key_to_id_map = [k \in Keys |-> NoId]
    /\ issued = {}
    /\ nops = 0
    /\ budget = 0
    /\ last = Call("new", NoKey, 0, "", "Ok", NoEvent)
    /\ written = [k \in Keys |-> NoWrite]
    /\ boot = "fresh"
    /\ recovered = NoRecovery
    /\ script = -1
    /\ server = NoServer
    /\ \E failover \in FailoverInputs, id_key \in IdKeyInputs :
          cluster = ClusterUp(failover, id_key)

ClusterStep == cluster.on /\ UNCHANGED <<engineVars, server>>

Running(n, pcs) == cluster.up[n] /\ cluster.pc[n] \in pcs

\* A sequence without the entries of one node.
RECURSIVE Without(_, _)
Without(q, n) ==
    IF q = << >> THEN << >>
    ELSE IF Head(q) = n THEN Without(Tail(q), n)
    ELSE <<Head(q)>> \o Without(Tail(q), n)

\* The coordinator grants a lock to the oldest request.
LockOwner(q) == IF q = << >> THEN NoNode ELSE Head(q)

\* run_cluster_node returns an error or panics: the node's task is over.
Ended(c, n) == [c EXCEPT !.up[n] = FALSE, !.pc[n] = "ended"]

\* A membership key put without a lease.
RegisterPutNoLease(c, n, group) ==
    [c EXCEPT !.members = @ \cup {<<group, n, FALSE>>}, !.group_key[n] = group]

\* Node::register: the membership key of the group is put with the lease
\* and self.group_key is set.
RegisterPut(c, n, group) ==
    [c EXCEPT !.members = @ \cup {<<group, n, TRUE>>}, !.group_key[n] = group]

\* node_id, the get of the failover keys; the loop over them follows, or
\* new_id when there is none.
NodeIdGet(n) ==
    /\ ClusterStep
    /\ Running(n, {"node_id"})
    /\ cluster' = [cluster EXCEPT
            !.kvs[n] = SortEpochs(cluster.failover),
            !.pc[n] = IF cluster.failover = {} THEN "new_id" ELSE "join"]

\* join_group returned false: the next failover key, or new_id after the
\* last one. Nothing is unlocked.
JoinNext(c, n) ==
    [c EXCEPT !.kvs[n] = Tail(@),
              !.pc[n] = IF Tail(c.kvs[n]) = << >> THEN "new_id" ELSE "join"]

\* join_group, the lock of group-add-lock-<group> with the lease: refused
\* without a live lease, queued otherwise.
JoinLock(n) ==
    /\ ClusterStep
    /\ Running(n, {"join"})
    /\ LET group == Head(cluster.kvs[n]) IN
       IF cluster.lease[n]
       THEN cluster' = [cluster EXCEPT !.grouplock[group] = Append(@, n),
                                       !.pc[n] = "join_wait"]
       ELSE cluster' = JoinNext(cluster, n)

\* join_group, the lock is granted, then register(group).
JoinRegister(n) ==
    /\ ClusterStep
    /\ Running(n, {"join_wait"})
    /\ cluster.lease[n]
    /\ LockOwner(cluster.grouplock[Head(cluster.kvs[n])]) = n
    /\ cluster' = [RegisterPut(cluster, n, Head(cluster.kvs[n]))
                       EXCEPT !.pc[n] = "join_delete"]

\* join_group, the lock request of a node whose lease expired fails.
JoinFailed(n) ==
    /\ ClusterStep
    /\ Running(n, {"join_wait"})
    /\ ~cluster.lease[n]
    /\ cluster' = JoinNext(cluster, n)

\* join_group, the delete of the failover key; node_id returns the group
\* as the node id.
JoinDelete(n) ==
    /\ ClusterStep
    /\ Running(n, {"join_delete"})
    /\ LET group == Head(cluster.kvs[n]) IN
       cluster' = [cluster EXCEPT !.failover = @ \ {group},
                                  !.id[n] = group,
                                  !.via[n] = group,
                                  !.pc[n] = "register"]

\* new_id, the lock of id-key-lock with the lease; expect() panics when
\* the request is refused.
NewIdLock(n) ==
    /\ ClusterStep
    /\ Running(n, {"new_id"})
    /\ IF cluster.lease[n]
       THEN cluster' = [cluster EXCEPT !.idlock = Append(@, n),
                                       !.pc[n] = "new_id_wait"]
       ELSE cluster' = Ended(cluster, n)

\* new_id, the lock is granted and id_key is read: its value is the node
\* id, and no key is an error. The lock is not released and id_key is not
\* written.
NewIdGet(n) ==
    /\ ClusterStep
    /\ Running(n, {"new_id_wait"})
    /\ cluster.lease[n]
    /\ LockOwner(cluster.idlock) = n
    /\ IF cluster.id_key = NoNodeId
       THEN cluster' = Ended(cluster, n)
       ELSE cluster' = [cluster EXCEPT !.id[n] = cluster.id_key,
                                       !.pc[n] = "register"]

\* new_id, the lock request of a node whose lease expired fails and
\* expect() panics.
NewIdFailed(n) ==
    /\ ClusterStep
    /\ Running(n, {"new_id_wait"})
    /\ ~cluster.lease[n]
    /\ cluster' = Ended(cluster, n)

\* run_cluster_node after node_id: the group of the node id is looked up
\* and the node registers in it. The node id stays in a local variable,
\* self.node_id is not set.
Register(n) ==
    /\ ClusterStep
    /\ Running(n, {"register"})
    /\ LET group == group_id(cluster.config, cluster.id[n]) IN
       IF group = NoGroup \/ ~cluster.lease[n]
       THEN cluster' = Ended(cluster, n)
       ELSE cluster' = [RegisterPut(cluster, n, group) EXCEPT !.pc[n] = "loop"]

\* node_id_from_registry reads self.node_id.
node_id_from_registry(n) == cluster.node_id[n]

\* fetch_keys: the keys of the group of self.node_id, NoKeys for an Err.
fetch_keys(n, typ) ==
    IF node_id_from_registry(n) = NoNodeId THEN NoKeys
    ELSE IF group_id(cluster.config, node_id_from_registry(n)) = NoGroup THEN NoKeys
    ELSE IF typ = "Leader"
    THEN leader_key(cluster.config, group_id(cluster.config, node_id_from_registry(n)))
    ELSE election_keys(cluster.config, group_id(cluster.config, node_id_from_registry(n)))

\* get_leaders: the values of the leader keys that exist, nothing when
\* leader_keys() is an Err.
GetLeaders(n) ==
    IF fetch_keys(n, "Leader") = NoKeys THEN {}
    ELSE { cluster.leader[k] : k \in Slots } \ {NoNode}

\* The watch_group_leaders branch of the select loop of a Member. An Err of
\* leader_keys() or election_keys() completes the branch with a value that
\* does not match Ok(Some(key)), and the handler with campaign does not
\* run. Otherwise the two election prefixes are read and the first empty
\* one is campaigned for.
WatchGroupLeaders(n) ==
    /\ ClusterStep
    /\ Running(n, {"loop"})
    /\ cluster.nodetype[n] = "Member"
    /\ IF fetch_keys(n, "Leader") = NoKeys \/ fetch_keys(n, "Election") = NoKeys
       THEN UNCHANGED cluster
       ELSE IF \E k \in Slots : cluster.locks[k] = << >>
       THEN cluster' = [cluster EXCEPT
               !.pc[n] = "campaign",
               !.key[n] = CHOOSE k \in Slots :
                             /\ cluster.locks[k] = << >>
                             /\ \A j \in Slots : cluster.locks[j] = << >> => k <= j]
       ELSE cluster' = [cluster EXCEPT !.pc[n] = "watch"]

\* The tick branch of the select loop: keepalive refreshes the lease.
KeepAlive(n) ==
    /\ ClusterStep
    /\ Running(n, {"loop"})
    /\ UNCHANGED cluster

\* The watch_peers branch: get_peers returns an Err because self.node_id
\* is None, the branch completes and the loop starts over.
WatchPeers(n) ==
    /\ ClusterStep
    /\ Running(n, {"loop"})
    /\ node_id_from_registry(n) = NoNodeId
    /\ UNCHANGED cluster

\* The process of a node is killed: nothing is revoked.
Kill(n) ==
    /\ ClusterStep
    /\ cluster.up[n]
    /\ cluster.kills < MaxKills
    /\ cluster' = [cluster EXCEPT !.up[n] = FALSE,
                                  !.pc[n] = "killed",
                                  !.kills = @ + 1]

\* The node waits in client.lock behind the request of another node.
WaitsForLock(n) ==
    \/ cluster.pc[n] = "new_id_wait" /\ LockOwner(cluster.idlock) # n
    \/ /\ cluster.pc[n] = "join_wait"
       /\ LockOwner(cluster.grouplock[Head(cluster.kvs[n])]) # n

\* The lease of a node that sends no keep-alive expires: a node whose task
\* is over, or a node that waits for a lock before it has entered its
\* select loop. Every key attached to the lease is deleted.
LeaseExpire(n) ==
    /\ ClusterStep
    /\ cluster.lease[n]
    /\ ~cluster.up[n] \/ WaitsForLock(n)
    /\ cluster' = [cluster EXCEPT
            !.lease[n] = FALSE,
            !.members = { m \in @ : ~(m[2] = n /\ m[3]) },
            !.idlock = Without(@, n),
            !.grouplock = [g \in DOMAIN @ |-> Without(@[g], n)],
            !.locks = [k \in Slots |-> Without(@[k], n)]]

NextCluster ==
    \/ \E n \in Nodes : NodeIdGet(n)
    \/ \E n \in Nodes : JoinLock(n)
    \/ \E n \in Nodes : JoinRegister(n)
    \/ \E n \in Nodes : JoinFailed(n)
    \/ \E n \in Nodes : JoinDelete(n)
    \/ \E n \in Nodes : NewIdLock(n)
    \/ \E n \in Nodes : NewIdGet(n)
    \/ \E n \in Nodes : NewIdFailed(n)
    \/ \E n \in Nodes : Register(n)
    \/ \E n \in Nodes : WatchGroupLeaders(n)
    \/ \E n \in Nodes : KeepAlive(n)
    \/ \E n \in Nodes : WatchPeers(n)
    \/ \E n \in Nodes : Kill(n)
    \/ \E n \in Nodes : LeaseExpire(n)

SpecCluster == InitCluster /\ [][NextCluster]_vars

\* The runtime polls the task of every node and the coordinator serves
\* every request and expires every lease that is not refreshed: a step
\* that stays possible is eventually taken.
FairCluster ==
    \A n \in Nodes :
        /\ WF_vars(NodeIdGet(n))
        /\ WF_vars(JoinLock(n))
        /\ WF_vars(JoinRegister(n))
        /\ WF_vars(JoinFailed(n))
        /\ WF_vars(JoinDelete(n))
        /\ WF_vars(NewIdLock(n))
        /\ WF_vars(NewIdGet(n))
        /\ WF_vars(NewIdFailed(n))
        /\ WF_vars(Register(n))
        /\ WF_vars(WatchGroupLeaders(n))
        /\ WF_vars(LeaseExpire(n))

SpecClusterFair == SpecCluster /\ FairCluster

\* The groups under whose membership prefix a node has a key.
MemberGroups(n) == { m[1] : m \in { x \in cluster.members : x[2] = n } }

ThreeMembers ==
    /\ cluster.on
    /\ \A n \in Nodes : Running(n, {"loop"}) /\ cluster.lease[n]

\* Both leader slots are held by running Leaders.
TwoLeaders ==
    \A k \in Slots :
        \E n \in Nodes : /\ cluster.up[n]
                         /\ cluster.nodetype[n] = "Leader"
                         /\ cluster.leader[k] = n

\* Two nodes hold the two leader slots, a is the leader of slot k and has
\* been killed, c is the third node, a running Member.
LeaderKilled(a, b, c, k) ==
    /\ cluster.on
    /\ a # b /\ b # c /\ a # c
    /\ ~cluster.up[a] /\ cluster.nodetype[a] = "Leader" /\ cluster.key[a] = k
    /\ cluster.up[b] /\ cluster.nodetype[b] = "Leader" /\ cluster.key[b] # k
    /\ cluster.up[c] /\ cluster.nodetype[c] = "Member"

FailoverPending ==
    \E a \in Nodes, b \in Nodes, c \in Nodes, k \in Slots : LeaderKilled(a, b, c, k)

FailoverDone ==
    \E a \in Nodes, c \in Nodes, p \in Nodes :
        /\ cluster.on
        /\ a # c /\ p # c
        /\ ~cluster.up[a] /\ cluster.nodetype[a] = "Leader"
        /\ cluster.nodetype[c] = "Leader"
        /\ cluster.leader[cluster.key[a]] = c
        /\ c \in GetLeaders(p)

\* C16: three nodes of one coalition come to hold its two leader slots, and
\* after one of the two leaders is killed the third node eventually runs as
\* Leader and get_leaders on a peer returns it for the freed slot.
C16_Failover ==
    /\ ThreeMembers ~> TwoLeaders
    /\ FailoverPending ~> FailoverDone

\* A running Member with a live lease is in its select loop while one of
\* the two election prefixes of its coalition has no entry.
MemberSeesEmptySlot(n) ==
    /\ cluster.on
    /\ Running(n, {"loop"})
    /\ cluster.nodetype[n] = "Member"
    /\ cluster.lease[n]
    /\ \E k \in Slots : cluster.locks[k] = << >>

\* C36: a Member whose watch_group_leaders finds an election prefix without
\* an entry campaigns for that slot, so an empty slot is eventually
\* followed by a campaign for it.
C36_EmptySlotCampaign ==
    \A n \in Nodes :
        MemberSeesEmptySlot(n) ~>
            (~cluster.up[n] \/ (cluster.pc[n] = "campaign" /\ cluster.key[n] # NoSlot))

\* C37: the lease of a running node never expires.
C37_RunningNodeKeepsLease ==
    cluster.on => \A n \in Nodes : cluster.up[n] => cluster.lease[n]

\* The node got its node id from id_key.
IdFromIdKey(n) == cluster.via[n] = NoGroup /\ cluster.id[n] # NoNodeId

\* Every node that was not killed has registered and runs its loop.
AllRegistered ==
    cluster.on /\ \A n \in Nodes : cluster.pc[n] \in {"loop", "killed"}

\* C38: no two nodes that run at the same time have the same node id from
\* id_key, and with a usable id_key every node that is not killed obtains a
\* node id and completes its registration.
C38_IdentityAcquired ==
    /\ [](cluster.on =>
            \A n \in Nodes, m \in Nodes :
                (n # m /\ cluster.up[n] /\ cluster.up[m]
                    /\ IdFromIdKey(n) /\ IdFromIdKey(m))
                => cluster.id[n] # cluster.id[m])
    /\ (cluster.on /\ group_id(cluster.config, cluster.id_key) # NoGroup)
          => <>[]AllRegistered

\* C39: a node that took the failover slot of group g and runs its loop has
\* a membership key under group g and under no other group, the failover
\* key is gone, and the group of its group key is g.
C39_FailoverJoinsAnnouncedGroup ==
    cluster.on =>
        \A n \in Nodes :
            (Running(n, {"loop"}) /\ cluster.via[n] # NoGroup) =>
                /\ MemberGroups(n) = {cluster.via[n]}
                /\ cluster.via[n] \notin cluster.failover
                /\ cluster.group_key[n] = cluster.via[n]

\* ---------------------------------------------------------------------
\* The engine with its read calls: get_event_by_key and contains_event
\* between writes, deletes and compactions
\* ---------------------------------------------------------------------
\* Number of state-changing calls in a run of SpecRead.
MaxReadOps == 4

InitRead ==
    /\ clock = 2
    /\ disk = [n \in {WalPath(1)} |-> << >>]
    /\ alive = TRUE
    /\ wal = WalNew(1)
    /\ memtable = MemTableNew
    /\ sstables = << >>
    /\ bloomfilter = {}
    /\ key_to_id_map = [k \in Keys |-> NoId]
    /\ issued = {}
    /\ nops = 0
    /\ budget = MaxReadOps
    /\ server = NoServer
    /\ cluster = NoCluster
    /\ last = Call("new", NoKey, 0, "", "Ok", NoEvent)
    /\ written = [k \in Keys |-> NoWrite]
    /\ boot = "fresh"
    /\ recovered = NoRecovery
    /\ script = 0

\* MemTable::get_index: the identifier list is taken out of the memtable.
MemTableGetIndex(m) == [m EXCEPT !.identifiers = << >>]

\* IntoIterator for &MemTable: the iterator borrows the memtable.
MemTableIntoIter(m) == m

\* What a read call leaves of the engine: it takes &self, reads the table
\* files through a reader and iterates the memtable by reference.
ReadCall ==
    /\ alive
    /\ memtable' = MemTableIntoIter(memtable)
    /\ UNCHANGED <<clock, disk, alive, wal, sstables, bloomfilter,
                   key_to_id_map, issued, nops, budget, written, boot,
                   recovered, script, server, cluster>>

\* RDeeBee::get_event_by_key.
GetEventByKeyCall(key) ==
    /\ ReadCall
    /\ last' = Call("get_event_by_key", key, 0, GetEventByKey(key).payload,
                    GetEventByKey(key).status, GetRetEvent(key))

\* RDeeBee::contains_event; the answer is kept as the status of the call.
ContainsEventCall(id) ==
    /\ ReadCall
    /\ last' = Call("contains_event", NoKey, id, "",
                    IF ContainsEvent(id) THEN "true" ELSE "false", NoEvent)

NextRead ==
    \/ \E key \in Keys : AddEvent(key, "Write", nops + 1, "p")
    \/ \E key \in Keys : DeleteEvent(key, nops + 1)
    \/ TryMemtableCompact
    \/ TrySstablesCompact
    \/ \E key \in Keys : GetEventByKeyCall(key)
    \/ \E id \in Tids : ContainsEventCall(id)

SpecRead == InitRead /\ [][NextRead]_vars

\* A step that is a call of get_event_by_key or contains_event.
ReadStep ==
    /\ last'.op \in {"get_event_by_key", "contains_event"}
    /\ nops' = nops

\* C21: get_event_by_key and contains_event leave the WAL, the memtable, the
\* SSTable list, the bloom filter, the key-to-tid map and the files as they
\* were, whatever they answer.
C21_ReadsKeepState ==
    [][ ReadStep =>
          UNCHANGED <<wal, memtable, sstables, bloomfilter, key_to_id_map,
                      disk>> ]_vars

\* C21 witness: get_event_by_key has answered Ok on an engine that holds
\* events in the memtable and in an SSTable.
C21_Witness ==
    /\ alive
    /\ last.op = "get_event_by_key"
    /\ last.status = "Ok"
    /\ memtable.identifiers # << >>
    /\ sstables # << >>

\* A step that is a call of try_sstables_compact.
SstablesCompactStep == last'.op = "try_sstables_compact" /\ nops' = nops + 1

\* C22: try_sstables_compact changes nothing with fewer than two SSTables;
\* with n >= 2 it returns Ok with n - 1 tables: the merge of the tables that
\* were first and second at the head, the tables that followed behind it in
\* their order.
C22_MergesTwoOldest ==
    [][ SstablesCompactStep =>
          IF Len(sstables) < 2
          THEN /\ last'.status = "Ok"
               /\ UNCHANGED <<sstables, disk, memtable, wal>>
          ELSE /\ last'.status = "Ok"
               /\ alive'
               /\ Len(sstables') = Len(sstables) - 1
               /\ SubSeq(sstables', 2, Len(sstables'))
                    = SubSeq(sstables, 3, Len(sstables))
               /\ TablePath(sstables'[1]) \in DOMAIN disk'
               /\ disk'[TablePath(sstables'[1])]
                    = EncodeAll(MergeEvents(disk[TablePath(sstables[1])], sstables[1],
                                            disk[TablePath(sstables[2])], sstables[2]))
    ]_vars

\* ---------------------------------------------------------------------
\* SSTable::merge among three sealed tables, with failing file writes
\* ---------------------------------------------------------------------
\* Number of merge calls in a run of SpecMerge3.
MaxMerges == 2

\* What a table of SpecMerge3 holds for a tid.
Table3Kinds == {"absent", "Write", "Delete"}

\* Three tables A, B and C sealed in this order (epochs 1, 2, 3; their
\* events carry seq 1, 2, 3), each sorted by tid.
InitMerge3 ==
    /\ \E kindsA \in [Tids -> Table3Kinds], kindsB \in [Tids -> Table3Kinds],
          kindsC \in [Tids -> Table3Kinds] :
          disk = [n \in {TablePath(1), TablePath(2), TablePath(3)} |->
                    IF n = TablePath(1) THEN EncodeAll(TableFrom(kindsA, 1, 1))
                    ELSE IF n = TablePath(2) THEN EncodeAll(TableFrom(kindsB, 1, 2))
                    ELSE EncodeAll(TableFrom(kindsC, 1, 3))]
    /\ sstables = << 1, 2, 3 >>
    /\ clock = 4
    /\ alive = TRUE
    /\ wal = WalNew(0)
    /\ memtable = MemTableNew
    /\ bloomfilter = {}
    /\ key_to_id_map = [k \in Keys |-> NoId]
    /\ issued = {}
    /\ nops = 0
    /\ budget = MaxMerges
    /\ server = NoServer
    /\ cluster = NoCluster
    /\ last = Call("tables", NoKey, 0, "", "Ok", NoEvent)
    /\ written = [k \in Keys |-> NoWrite]
    /\ boot = "fresh"
    /\ recovered = NoRecovery
    /\ script = -1

\* The list without the entries at positions i and j.
RECURSIVE ListWithout(_, _, _, _)
ListWithout(tables, i, j, k) ==
    IF k > Len(tables) THEN << >>
    ELSE (IF k = i \/ k = j THEN << >> ELSE << tables[k] >>)
         \o ListWithout(tables, i, j, k + 1)

\* What of the harness a call of merge leaves alone.
MergeCall ==
    /\ alive
    /\ nops < budget
    /\ nops' = nops + 1
    /\ UNCHANGED <<alive, wal, memtable, bloomfilter, key_to_id_map, issued,
                   budget, server, cluster, written, boot, recovered, script>>

\* self.merge(other) with self at position i and other at position j of the
\* list; the caller puts the merged table at the head of the list.
MergePair(i, j) ==
    /\ MergeCall
    /\ i \in 1..Len(sstables) /\ j \in 1..Len(sstables) /\ i # j
    /\ disk' = MergeDisk(disk, sstables[i], sstables[j], clock)
    /\ sstables' = << clock >> \o ListWithout(sstables, i, j, 1)
    /\ clock' = clock + 1
    /\ last' = Call("merge", NoKey, 0, "", "Ok", NoEvent)

\* self.merge(other) when the merged file cannot be created, or when the
\* write of its events fails after k of the chunks: merge returns the error
\* and the caller is left without the two tables.
MergePairError(i, j) ==
    /\ MergeCall
    /\ i \in 1..Len(sstables) /\ j \in 1..Len(sstables) /\ i # j
    /\ LET removed == FileRemove(disk, {TablePath(sstables[i]), TablePath(sstables[j])})
           chunks  == EncodeAll(MergeEvents(disk[TablePath(sstables[i])], sstables[i],
                                            disk[TablePath(sstables[j])], sstables[j]))
       IN  \/ disk' = removed
           \/ \E k \in 0..(Len(chunks) - 1) :
                 disk' = FileAppend(removed, TablePath(clock), SubSeq(chunks, 1, k))
    /\ sstables' = ListWithout(sstables, i, j, 1)
    /\ clock' = clock + 1
    /\ last' = Call("merge", NoKey, 0, "", "Err", NoEvent)

NextMerge3 ==
    \/ \E i \in 1..3, j \in 1..3 : MergePair(i, j)
    \/ \E i \in 1..3, j \in 1..3 : MergePairError(i, j)

SpecMerge3 == InitMerge3 /\ [][NextMerge3]_vars

\* The newer of two epochs.
NewerEpoch(e1, e2) == IF e1 > e2 THEN e1 ELSE e2

\* C23: the table merge writes carries the newer of the two input epochs, so
\* every table sealed after both inputs is still newer than the merged one,
\* in a later merge and in the list recovery sorts by epoch.
C23_MergedEpoch ==
    [][ \A i \in 1..3, j \in 1..3 :
          MergePair(i, j) =>
             /\ sstables'[1] = NewerEpoch(sstables[i], sstables[j])
             /\ \A k \in 1..Len(sstables) :
                   (sstables[k] > sstables[i] /\ sstables[k] > sstables[j])
                      => sstables[k] > sstables'[1] ]_vars

\* C24: when merge reports a failure, both input files still exist with the
\* contents they had.
C24_FailedMergeKeepsInputs ==
    [][ \A i \in 1..3, j \in 1..3 :
          MergePairError(i, j) =>
             \A a \in {sstables[i], sstables[j]} :
                /\ TablePath(a) \in DOMAIN disk'
                /\ disk'[TablePath(a)] = disk[TablePath(a)] ]_vars

\* ---------------------------------------------------------------------
\* The engine with file errors during compaction
\* ---------------------------------------------------------------------
\* Number of state-changing calls in a run of SpecCompactErr.
MaxCompactOps == 5

InitCompactErr ==
    /\ clock = 2
    /\ disk = [n \in {WalPath(1)} |-> << >>]
    /\ alive = TRUE
    /\ wal = WalNew(1)
    /\ memtable = MemTableNew
    /\ sstables = << >>
    /\ bloomfilter = {}
    /\ key_to_id_map = [k \in Keys |-> NoId]
    /\ issued = {}
    /\ nops = 0
    /\ budget = MaxCompactOps
    /\ server = NoServer
    /\ cluster = NoCluster
    /\ last = Call("new", NoKey, 0, "", "Ok", NoEvent)
    /\ written = [k \in Keys |-> NoWrite]
    /\ boot = "fresh"
    /\ recovered = NoRecovery
    /\ script = 0

\* What a compaction call that returns an error leaves alone.
CompactErrorCall(op) ==
    /\ alive
    /\ nops < budget
    /\ nops' = nops + 1
    /\ last' = Call(op, NoKey, 0, "", "Err", NoEvent)
    /\ boot' = "running"
    /\ recovered' = NoRecovery
    /\ script' = -1
    /\ UNCHANGED <<alive, bloomfilter, key_to_id_map, issued, written, budget,
                   server, cluster>>

\* RDeeBee::try_memtable_compact returning an error.  The memtable was
\* replaced by a new one on entry.  Either from_memtable cannot create the
\* table file, or save_to_disk fails after k of the chunks, or the table is
\* saved and pushed and Wal::new fails.
TryMemtableCompactError ==
    /\ CompactErrorCall("try_memtable_compact")
    /\ memtable' = MemTableNew
    /\ LET chunks == EncodeAll(MemTableIter(memtable)) IN
       \/ /\ disk' = disk
          /\ clock' = clock
          /\ UNCHANGED <<sstables, wal>>
       \/ /\ \E k \in 0..(Len(chunks) - 1) :
                disk' = FileAppend(disk, TablePath(clock), SubSeq(chunks, 1, k))
          /\ clock' = clock + 1
          /\ UNCHANGED <<sstables, wal>>
       \/ /\ disk' = SaveToDisk(disk, clock, memtable)
          /\ sstables' = Append(sstables, clock)
          /\ clock' = clock + 1
          /\ UNCHANGED wal

\* RDeeBee::try_sstables_compact returning the error of merge: the two
\* tables were taken off the list and merge has removed their files.
TrySstablesCompactError ==
    /\ CompactErrorCall("try_sstables_compact")
    /\ Len(sstables) >= 3
    /\ LET removed == FileRemove(disk, {TablePath(sstables[1]), TablePath(sstables[3])})
           chunks  == EncodeAll(MergeEvents(disk[TablePath(sstables[1])], sstables[1],
                                            disk[TablePath(sstables[3])], sstables[3]))
       IN  \/ disk' = removed
           \/ \E k \in 0..(Len(chunks) - 1) :
                 disk' = FileAppend(removed, TablePath(clock), SubSeq(chunks, 1, k))
    /\ sstables' = << sstables[2] >> \o SubSeq(sstables, 4, Len(sstables))
    /\ clock' = clock + 1
    /\ UNCHANGED <<wal, memtable>>

NextCompactErr ==
    \/ \E key \in Keys : AddEvent(key, "Write", nops + 1, "p")
    \/ \E key \in Keys : DeleteEvent(key, nops + 1)
    \/ TryMemtableCompact
    \/ TrySstablesCompact
    \/ TryMemtableCompactError
    \/ TrySstablesCompactError

SpecCompactErr == InitCompactErr /\ [][NextCompactErr]_vars

\* The events a lookup by tid finds in the memtable or in an SSTable of the
\* list.
ReadableEvents ==
    { MemTableGetEvent(memtable, t) : t \in DOMAIN memtable.entries }
    \cup { e \in { SSTableGet(disk, sstables[k], t) :
                      k \in 1..Len(sstables), t \in Tids } : e # NoEvent }

\* C25: when try_memtable_compact or try_sstables_compact returns an error,
\* the engine is still there, its SSTable list is the one it had, and every
\* event that could be read before the call can be read after it.
C25_CompactionErrorKeepsState ==
    [][ (nops' = nops + 1 /\ last'.status = "Err"
         /\ last'.op \in {"try_memtable_compact", "try_sstables_compact"})
        => /\ alive'
           /\ sstables' = sstables
           /\ ReadableEvents \subseteq ReadableEvents' ]_vars

\* ---------------------------------------------------------------------
\* Properties of the reads
\* ---------------------------------------------------------------------
\* C26: when add_event(Write, k, p) answers Ok for a key whose last call was
\* a delete_event answered Ok, the event carries the tid k had, the bloom
\* filter finds that tid again, and get_event_by_key(k) answers Ok with p.
C26_WriteAfterDelete ==
    [][ \A k \in Keys :
          (alive /\ written[k].st = "deleted" /\ nops' = nops + 1
           /\ last'.op = "add_event" /\ last'.key = k /\ last'.status = "Ok"
           /\ last'.ev.action = "Write")
          => /\ last'.ev.tid = written[k].tid
             /\ key_to_id_map'[k] = written[k].tid
             /\ BFFind(bloomfilter', written[k].tid)
             /\ GetEventByKey(k)'.status = "Ok"
             /\ GetEventByKey(k)'.payload = last'.payload ]_vars

\* The event a lookup of the tid has to find: the memtable's when it holds
\* one, else that of the newest SSTable of the list that holds one.
LookupByTid(id) ==
    IF MemTableGetEvent(memtable, id) # NoEvent
    THEN MemTableGetEvent(memtable, id)
    ELSE ScanTables(disk, sstables, Len(sstables), id)

\* C27: the event get_event_by_key(k) answers with carries the tid mapped to
\* k, and is the one the memtable holds for that tid or, when it holds none,
\* the one of the newest SSTable that has the tid.
C27_ReturnsOwnEvent ==
    (alive /\ last.op = "get_event_by_key" /\ last.status = "Ok")
        => /\ last.ev.tid = key_to_id_map[last.key]
           /\ last.ev = LookupByTid(key_to_id_map[last.key])

\* C28: contains_event(tid) (the tid is kept as the seq of the call) answers
\* false when the bloom filter misses the tid, and otherwise true exactly
\* when the memtable or an SSTable of the list holds an event with the tid.
C28_ContainsEvent ==
    (alive /\ last.op = "contains_event")
        => (last.status = "true"
              <=> /\ BFFind(bloomfilter, last.seq)
                  /\ \/ MemTableContains(memtable, last.seq)
                     \/ \E k \in 1..Len(sstables) :
                           SSTableContains(disk, sstables[k], last.seq))

\* ---------------------------------------------------------------------
\* MemTable::insert, get_event and the iterator on their own
\* ---------------------------------------------------------------------
\* Number of insert calls in a run of SpecMemTable.
MaxInserts == 3

InitMemTable ==
    /\ clock = 2
    /\ disk = [n \in {WalPath(1)} |-> << >>]
    /\ alive = TRUE
    /\ wal = WalNew(1)
    /\ memtable = MemTableNew
    /\ sstables = << >>
    /\ bloomfilter = {}
    /\ key_to_id_map = [k \in Keys |-> NoId]
    /\ issued = {}
    /\ nops = 0
    /\ budget = MaxInserts
    /\ server = NoServer
    /\ cluster = NoCluster
    /\ last = Call("new", NoKey, 0, "", "Ok", NoEvent)
    /\ written = [k \in Keys |-> NoWrite]
    /\ boot = "fresh"
    /\ recovered = NoRecovery
    /\ script = -1

\* MemTable::insert of an event with the given tid; the events carry the
\* number of the call as their seq.
MemTableInsertCall(id, payload) ==
    /\ nops < budget
    /\ LET event == EventSetPayload(EventWithId(id, "Write", nops + 1), payload)
       IN  /\ memtable' = MemTableInsert(memtable, event)
           /\ last' = Call("insert", NoKey, nops + 1, payload, "Ok", event)
    /\ nops' = nops + 1
    /\ UNCHANGED <<clock, disk, alive, wal, sstables, bloomfilter, key_to_id_map,
                   issued, budget, written, boot, recovered, script, server,
                   cluster>>

NextMemTable ==
    \E id \in Tids, payload \in ReqPayloads : MemTableInsertCall(id, payload)

SpecMemTable == InitMemTable /\ [][NextMemTable]_vars

\* The tids of a sequence of events are strictly ascending.
StrictlyAscending(events) ==
    \A i \in 1..(Len(events) - 1) : events[i].tid < events[i + 1].tid

\* C29: the memtable holds one event per tid, get_event returns the last
\* event inserted for the tid, and the iterator yields every stored tid once,
\* in strictly ascending order.
C29_MemTableOnePerTid ==
    /\ last.op = "insert" => MemTableGetEvent(memtable, last.ev.tid) = last.ev
    /\ \A t \in DOMAIN memtable.entries : MemTableGetEvent(memtable, t).tid = t
    /\ { MemTableIter(memtable)[i].tid : i \in 1..Len(MemTableIter(memtable)) }
          = DOMAIN memtable.entries
    /\ Len(MemTableIter(memtable)) = Cardinality(DOMAIN memtable.entries)
    /\ StrictlyAscending(MemTableIter(memtable))

\* The events the chunks of a table file were written for, in file order.
TableFileEvents(d, table) ==
    [i \in 1..Len(d[TablePath(table)]) |-> d[TablePath(table)][i].ev]

\* C30: every table file of the engine's list holds its events in strictly
\* ascending tid order, so at most one per tid.
C30_TablesSorted ==
    alive => \A k \in 1..Len(sstables) :
                StrictlyAscending(TableFileEvents(disk, sstables[k]))

\* ---------------------------------------------------------------------
\* The '|' framing of the files
\* ---------------------------------------------------------------------
\* C31: every WAL and table file reads back as the events written to it, all
\* of them and in the order written: the file is the encoding of what its
\* iterator yields.
C31_FramingRoundTrip ==
    \A n \in DOMAIN disk : EncodeAll(ForIter(disk[n])) = disk[n]

\* ---------------------------------------------------------------------
\* try_memtable_compact and the threshold
\* ---------------------------------------------------------------------
\* A step that is a call of try_memtable_compact on a memtable with no event,
\* whose size, 0 bytes, is below the threshold.
SmallMemtableCompactStep ==
    /\ last'.op = "try_memtable_compact"
    /\ nops' = nops + 1
    /\ memtable.identifiers = << >>

\* C32: try_memtable_compact on a memtable below the threshold changes
\* neither the memtable, the SSTable list nor the current WAL, and creates no
\* file.
C32_SmallMemtableNotSealed ==
    [][SmallMemtableCompactStep =>
          /\ UNCHANGED <<memtable, sstables, wal>>
          /\ DOMAIN disk' = DOMAIN disk]_vars

\* ---------------------------------------------------------------------
\* The server's tasks under the scheduling of the runtime
\* ---------------------------------------------------------------------
\* The tokio runtime polls every task that can make a step: the spawned
\* handler on a worker, the joined writer and compactor in main.
FairServer ==
    /\ WF_vars(HandlerTryLockQueue)
    /\ WF_vars(HandlerPush)
    /\ WF_vars(HandlerLen)
    /\ WF_vars(HandlerNotifyWriter)
    /\ WF_vars(HandlerNotifyCompactor)
    /\ WF_vars(HandlerTryRead)
    /\ WF_vars(HandlerReadDone)
    /\ WF_vars(HandlerRespond)
    /\ WF_vars(WriterRecv)
    /\ WF_vars(WriterPop)
    /\ WF_vars(WriterApply)
    /\ WF_vars(CompactorRecv)
    /\ WF_vars(CompactorSized)
    /\ WF_vars(CompactorTrySeal)
    /\ WF_vars(CompactorPush)
    /\ WF_vars(CompactorTryMerge)
    /\ WF_vars(CompactorMerged)

SpecServerFair == SpecServer /\ FairServer

\* A step in which the writer task is done with a signal that carried
\* true: it could not lock the queue, or its loop found the queue empty.
WriterSignalDone ==
    /\ server'.pc.writer = "recv"
    /\ \/ server.pc.writer = "drain"
       \/ /\ server.pc.writer = "recv"
          /\ server.events # << >>
          /\ Head(server.events)
          /\ server'.events = Tail(server.events)

\* The ids of the requests the writer task handed to the engine.
CalledIds == { server.called[i].id : i \in 1..Len(server.called) }

\* C33: the queue is empty whenever the writer task is done with a signal,
\* and every request whose enqueue was answered Ok is in the end taken off
\* the queue and handed to add_event or delete_event, once.
C33_WriterDrainsQueue ==
    /\ [][WriterSignalDone => server'.queue = << >>]_vars
    /\ <>[](server.acked \subseteq CalledIds)
    /\ [](\A i, j \in 1..Len(server.called) :
              server.called[i].id = server.called[j].id => i = j)

\* A signal that carries true is in flight to the compactor task while the
\* memtable is above the threshold.
SignalAboveThreshold ==
    /\ server.on
    /\ server.compactions # << >>
    /\ Head(server.compactions)
    /\ server.msize > COMPACTION_SIZE

\* C34: the compactor task serves every signal: a signal that finds the
\* memtable above the threshold leads to a call of compact_memtable, also
\* after an earlier attempt failed.
C34_CompactorKeepsServing ==
    SignalAboveThreshold ~> (server.pc.compactor = "seal")

\* ---------------------------------------------------------------------
\* Config::new and its queries on their own, over small configurations
\* ---------------------------------------------------------------------
\* The largest value of groups, group_size and reads in config.yaml.
MaxConf == 3
\* Number of queries in a run of SpecConfig.
MaxConfCalls == 2

ConfValues == 1..MaxConf

InitConfig ==
    /\ clock = 2
    /\ disk = [n \in {WalPath(1)} |-> << >>]
    /\ alive = TRUE
    /\ wal = WalNew(1)
    /\ memtable = MemTableNew
    /\ sstables = << >>
    /\ bloomfilter = {}
    /\ key_to_id_map = [k \in Keys |-> NoId]
    /\ issued = {}
    /\ nops = 0
    /\ budget = MaxConfCalls
    /\ last = [op |-> "new", arg |-> 0, result |-> NoKeys]
    /\ written = [k \in Keys |-> NoWrite]
    /\ boot = "fresh"
    /\ recovered = NoRecovery
    /\ script = -1
    /\ server = NoServer
    /\ \E groups \in ConfValues, group_size \in ConfValues, reads \in ConfValues :
          cluster = [on |-> FALSE, config |-> ConfigNew(groups, group_size, reads)]

ConfigStep ==
    /\ nops < budget
    /\ nops' = nops + 1
    /\ UNCHANGED <<clock, disk, alive, wal, memtable, sstables, bloomfilter,
                   key_to_id_map, issued, budget, written, boot, recovered,
                   script, server, cluster>>

GroupIdCall(node_id) ==
    /\ ConfigStep
    /\ last' = [op |-> "group_id", arg |-> node_id,
                result |-> group_id(cluster.config, node_id)]

LeaderKeyCall(group) ==
    /\ ConfigStep
    /\ last' = [op |-> "leader_key", arg |-> group,
                result |-> leader_key(cluster.config, group)]

ElectionKeysCall(group) ==
    /\ ConfigStep
    /\ last' = [op |-> "election_keys", arg |-> group,
                result |-> election_keys(cluster.config, group)]

NextConfig ==
    \/ \E node_id \in 0..(MaxConf * MaxConf) : GroupIdCall(node_id)
    \/ \E group \in 0..MaxConf : LeaderKeyCall(group)
    \/ \E group \in 0..MaxConf : ElectionKeysCall(group)

SpecConfig == InitConfig /\ [][NextConfig]_vars

\* C40: for every group g in 0..groups the configuration gives the election
\* key pair and the leader key pair of coalition floor(g / reads), two
\* groups have the same pairs exactly when they are in one coalition, and
\* the node ids of [k * group_size, (k + 1) * group_size) map to group k.
C40_ConfigKeysPerCoalition ==
    LET config == cluster.config
        i == last.arg \div config.reads
    IN  /\ (last.op = "election_keys" /\ last.arg \in Range(0, config.groups))
              => last.result = << election_key_prefix_gen("db", i, 1),
                                  election_key_prefix_gen("db", i, 2) >>
        /\ (last.op = "leader_key" /\ last.arg \in Range(0, config.groups))
              => last.result = << leader_key_gen("db", i, 1),
                                  leader_key_gen("db", i, 2) >>
        /\ last.op \in {"election_keys", "leader_key"}
              => \A g1 \in Range(0, config.groups), g2 \in Range(0, config.groups) :
                    (election_keys(config, g1) = election_keys(config, g2)
                        /\ leader_key(config, g1) = leader_key(config, g2))
                    <=> (g1 \div config.reads = g2 \div config.reads)
        /\ (last.op = "group_id"
               /\ last.arg \in Range(0, config.group_size * config.group_size))
              => last.result = last.arg \div config.group_size
====
